---- MODULE Spec2Model ----
(***************************************************************************)
(* A model of TrajFlow's continuous-normalizing-flow core (src/TrajCNF.py):*)
(* the natural cubic spline and its tridiagonal solver, the CDE encoder,   *)
(* the conditional ODE/CNF and the TrajCNF sampling entry point.           *)
(*                                                                         *)
(* Tensor arithmetic is modelled exactly: a scalar is an extended rational *)
(* <<n, d>> in lowest terms with d >= 0; d = 0 stands for the IEEE         *)
(* non-finite values a float tensor produces instead of raising            *)
(* (<<1,0>> = +inf, <<-1,0>> = -inf, <<0,0>> = nan).  Rounding and signed  *)
(* zeros are not modelled.  One channel is modelled: every tensor          *)
(* operation of the spline is elementwise over the channel dimension.      *)
(* Python's 0-based indices are kept: a tensor of length n is a function   *)
(* with domain 0..n-1.                                                     *)
(***************************************************************************)
EXTENDS Integers, Sequences, FiniteSets, TLC

(* ------------------------------ bounds -------------------------------- *)
\* longest control path (number of knots) that is constructed
MaxLen == 3
\* path values are drawn from 0..MaxVal
MaxVal == 1
\* largest tridiagonal system handed to _tridiagonal_solve on its own
MaxSize == 3
\* largest batch of observed trajectories, number of samples drawn, and
\* size of a tensor dimension (seq_len, input_dim, embedding_dim, ...)
MaxBatch == 2
MaxSamples == 3
MaxDim == 2
\* most hidden layers of a ConditionalODE
MaxHidden == 2
\* site properties modelled on an InD (the class has 32), input windows a
\* site's files hold, and property accesses made on one instance
MaxSites == 2
MaxData == 2
MaxAccesses == 4

(* ------------------------ extended rationals -------------------------- *)
Abs(n) == IF n < 0 THEN -n ELSE n
Sign(n) == IF n < 0 THEN -1 ELSE IF n > 0 THEN 1 ELSE 0

RECURSIVE GCD(_, _)
GCD(m, n) == IF n = 0 THEN m ELSE GCD(n, m % n)

\* the value n/d in lowest terms; n/0 is +inf, -inf or nan by the sign of n
Norm(n, d) ==
    IF d = 0 THEN <<Sign(n), 0>>
    ELSE LET g == GCD(Abs(n), Abs(d))
         IN  <<(Sign(d) * n) \div g, Abs(d) \div g>>

R(n) == <<n, 1>>
Zero == R(0)
NaN == <<0, 0>>
IsFinite(x) == x[2] # 0

RNeg(x) == <<-x[1], x[2]>>
RAdd(x, y) ==
    IF x[2] # 0 /\ y[2] # 0 THEN Norm(x[1] * y[2] + y[1] * x[2], x[2] * y[2])
    ELSE IF x = NaN \/ y = NaN THEN NaN
    ELSE IF x[2] # 0 THEN y
    ELSE IF y[2] # 0 THEN x
    ELSE IF x = y THEN x ELSE NaN
RSub(x, y) == RAdd(x, RNeg(y))
RMul(x, y) == Norm(x[1] * y[1], x[2] * y[2])
RRecip(x) == Norm(x[2], x[1])
RDiv(x, y) == RMul(x, RRecip(y))
\* t > s on finite values (a comparison with nan is False, as in torch)
RGreater(t, s) == IsFinite(t) /\ IsFinite(s) /\ t[1] * s[2] > s[1] * t[2]

Len0(f) == Cardinality(DOMAIN f)
Min(a, b) == IF a < b THEN a ELSE b
Max(a, b) == IF a > b THEN a ELSE b

(* ------------------ NaturalCubicSpline._tridiagonal_solve -------------- *)
\* a variant of Multiplier that multiplies by the pivot
Multiplier_Product(A_lower, new_A_diagonal, i) ==
    RMul(A_lower[i - 1], new_A_diagonal[i - 1])

\* line 132: w = A_lower[..., i - 1] / new_A_diagonal[i - 1]
Multiplier(A_lower, new_A_diagonal, i) ==
    RDiv(A_lower[i - 1], new_A_diagonal[i - 1])

\* line 133: new_A_diagonal[i] = A_diagonal[..., i] - w * A_upper[..., i - 1]
ForwardDiagonal(A_upper, A_diagonal, A_lower, new_A_diagonal, i) ==
    RSub(A_diagonal[i],
         RMul(Multiplier(A_lower, new_A_diagonal, i), A_upper[i - 1]))

\* line 134: new_b[i] = b[..., i] - w * new_b[i - 1]
ForwardRhs(b, A_lower, new_A_diagonal, new_b, i) ==
    RSub(b[i], RMul(Multiplier(A_lower, new_A_diagonal, i), new_b[i - 1]))

\* line 136: outs[channels - 1] = new_b[channels - 1] / new_A_diagonal[channels - 1]
BackFirst(new_b, new_A_diagonal, channels) ==
    RDiv(new_b[channels - 1], new_A_diagonal[channels - 1])

\* line 138: outs[i] = (new_b[i] - A_upper[..., i] * outs[i + 1]) / new_A_diagonal[i]
BackStep(new_b, A_upper, new_A_diagonal, outs, i) ==
    RDiv(RSub(new_b[i], RMul(A_upper[i], outs[i + 1])), new_A_diagonal[i])

\* lines 130-133 run to row i: new_A_diagonal[0..i]
RECURSIVE NewADiagonal(_, _, _, _)
NewADiagonal(A_upper, A_diagonal, A_lower, i) ==
    IF i = 0 THEN (0 :> A_diagonal[0])
    ELSE LET prev == NewADiagonal(A_upper, A_diagonal, A_lower, i - 1)
         IN  prev @@ (i :> ForwardDiagonal(A_upper, A_diagonal, A_lower, prev, i))

\* lines 129-134 run to row i: new_b[0..i]
RECURSIVE NewB(_, _, _, _)
NewB(b, A_lower, new_A_diagonal, i) ==
    IF i = 0 THEN (0 :> b[0])
    ELSE LET prev == NewB(b, A_lower, new_A_diagonal, i - 1)
         IN  prev @@ (i :> ForwardRhs(b, A_lower, new_A_diagonal, prev, i))

\* lines 136-138 run down to row i: outs[i..channels-1]
RECURSIVE Outs(_, _, _, _, _)
Outs(new_b, A_upper, new_A_diagonal, channels, i) ==
    IF i = channels - 1 THEN (i :> BackFirst(new_b, new_A_diagonal, channels))
    ELSE LET rest == Outs(new_b, A_upper, new_A_diagonal, channels, i + 1)
         IN  (i :> BackStep(new_b, A_upper, new_A_diagonal, rest, i)) @@ rest

\* _tridiagonal_solve(b, A_upper, A_diagonal, A_lower) as one call, channels >= 1
TridiagonalSolve(b, A_upper, A_diagonal, A_lower) ==
    LET channels == Len0(b)
        nd == NewADiagonal(A_upper, A_diagonal, A_lower, channels - 1)
        nb == NewB(b, A_lower, nd, channels - 1)
    IN  Outs(nb, A_upper, nd, channels, 0)

(* -------------------- NaturalCubicSpline._coefficients ----------------- *)
RECURSIVE StrictlyIncreasingTo(_, _)
StrictlyIncreasingTo(tm, n) ==
    n <= 1 \/ (tm[n - 2] < tm[n - 1] /\ StrictlyIncreasingTo(tm, n - 1))
\* a well-formed ControlPath: every knot time is later than the one before
StrictlyIncreasing(tm) == StrictlyIncreasingTo(tm, Len0(tm))

\* a variant of TooShort that lets a single time point through
TooShort_OffByOne(length) == length < 1

\* line 45: if length < 2
TooShort(length) == length < 2

NoSpline == [a |-> <<>>, b |-> <<>>, two_c |-> <<>>, three_d |-> <<>>]

\* a variant of LinearCoefficients that multiplies by the time step
LinearCoefficients_Product(tm, p) ==
    [a |-> (0 :> R(p[0])),
     b |-> (0 :> RMul(RSub(R(p[1]), R(p[0])), RSub(R(tm[1]), R(tm[0])))),
     two_c |-> (0 :> Zero),
     three_d |-> (0 :> Zero)]

\* lines 49-52: the single linear segment of a path of length 2
LinearCoefficients(tm, p) ==
    [a |-> (0 :> R(p[0])),
     b |-> (0 :> RDiv(RSub(R(p[1]), R(p[0])), RSub(R(tm[1]), R(tm[0])))),
     two_c |-> (0 :> Zero),
     three_d |-> (0 :> Zero)]

\* lines 55-56
TimeDiffsReciprocal(tm) ==
    [i \in 0..(Len0(tm) - 2) |-> RRecip(RSub(R(tm[i + 1]), R(tm[i])))]

\* lines 58, 60: 3 * (path[1:] - path[:-1]) and its product with 1/dt^2
ThreePathDiffs(p) ==
    [i \in 0..(Len0(p) - 2) |-> RMul(R(3), RSub(R(p[i + 1]), R(p[i])))]
PathDiffsScaled(tm, p) ==
    LET r == TimeDiffsReciprocal(tm)
    IN  [i \in 0..(Len0(p) - 2) |-> RMul(ThreePathDiffs(p)[i], RMul(r[i], r[i]))]

\* lines 63-67 (system_diagonal) and 68-71 (system_rhs): x[:-1] = v; x[-1] = 0;
\* x[1:] += v; and then x *= scale
Overlap(v, length, scale) ==
    [i \in 0..(length - 1) |->
        RMul(R(scale),
             RAdd(IF i < length - 1 THEN v[i] ELSE Zero,
                  IF i >= 1 THEN v[i - 1] ELSE Zero))]
\* a variant of SystemDiagonal without line 66's second reciprocal
SystemDiagonal_NoOverlap(tm) ==
    [i \in 0..(Len0(tm) - 1) |->
        RMul(R(2), IF i < Len0(tm) - 1 THEN TimeDiffsReciprocal(tm)[i] ELSE Zero)]
\* a variant of SystemDiagonal without line 67's doubling
SystemDiagonal_NotDoubled(tm) == Overlap(TimeDiffsReciprocal(tm), Len0(tm), 1)
SystemDiagonal(tm) == Overlap(TimeDiffsReciprocal(tm), Len0(tm), 2)
SystemRhs(tm, p) == Overlap(PathDiffsScaled(tm, p), Len0(p), 1)

\* lines 72-73
KnotDerivatives(tm, p) ==
    TridiagonalSolve(SystemRhs(tm, p), TimeDiffsReciprocal(tm),
                     SystemDiagonal(tm), TimeDiffsReciprocal(tm))

\* lines 78-80
TwoC(six, r, kd, i) ==
    RMul(RSub(RSub(RMul(six, r), RMul(R(4), kd[i])), RMul(R(2), kd[i + 1])), r)
\* lines 81-83
ThreeD(six, r, kd, i) ==
    RMul(RAdd(RMul(RNeg(six), r), RMul(R(3), RAdd(kd[i], kd[i + 1]))),
         RMul(r, r))

\* lines 55-83: the segments of a path of length > 2
CubicCoefficients(tm, p) ==
    LET r == TimeDiffsReciprocal(tm)
        six == [i \in 0..(Len0(p) - 2) |-> RMul(R(2), ThreePathDiffs(p)[i])]
        kd == KnotDerivatives(tm, p)
        seg == 0..(Len0(p) - 2)
    IN  [a |-> [i \in seg |-> R(p[i])],
         b |-> [i \in seg |-> kd[i]],
         two_c |-> [i \in seg |-> TwoC(six[i], r[i], kd, i)],
         three_d |-> [i \in seg |-> ThreeD(six[i], r[i], kd, i)]]

\* _coefficients(times, path): raised is the ValueError of line 47
Coefficients(tm, p) ==
    LET length == Len0(p)
    IN  IF TooShort(length) THEN [raised |-> TRUE, coeffs |-> NoSpline]
        ELSE IF length = 2
             THEN [raised |-> FALSE, coeffs |-> LinearCoefficients(tm, p)]
             ELSE [raised |-> FALSE, coeffs |-> CubicCoefficients(tm, p)]

(* ------------- _interpret_t, evaluate, derivative ---------------------- *)
\* line 145: index.clamp(0, maxlen)
Clamp(x, lo, hi) == Min(Max(x, lo), hi)

\* a variant of InterpretIndex that counts the knots at or before t
InterpretIndex_AtOrBefore(tm, maxlen, t) ==
    Clamp(Cardinality({i \in DOMAIN tm : ~RGreater(R(tm[i]), t)}) - 1, 0, maxlen)

\* lines 143-145: maxlen = self._b.size(-2) - 1;
\* index = (t > self._times).sum() - 1, clamped to [0, maxlen]
InterpretIndex(tm, maxlen, t) ==
    Clamp(Cardinality({i \in DOMAIN tm : RGreater(t, R(tm[i]))}) - 1, 0, maxlen)

\* _interpret_t(t): (fractional_part, index)
InterpretT(tm, s, t) ==
    LET index == InterpretIndex(tm, Len0(s.b) - 1, t)
    IN  [fractional_part |-> RSub(t, R(tm[index])), index |-> index]

\* a variant of Evaluate that does not divide the cubic term by 3
Evaluate_NoThird(s, fractional_part, index) ==
    LET inner1 == RAdd(RMul(<<1, 2>>, s.two_c[index]),
                       RMul(s.three_d[index], fractional_part))
        inner2 == RAdd(s.b[index], RMul(inner1, fractional_part))
    IN  RAdd(s.a[index], RMul(inner2, fractional_part))

\* lines 153-155: Horner evaluation of the cubic of segment index
Evaluate(s, fractional_part, index) ==
    LET inner1 == RAdd(RMul(<<1, 2>>, s.two_c[index]),
                       RDiv(RMul(s.three_d[index], fractional_part), R(3)))
        inner2 == RAdd(s.b[index], RMul(inner1, fractional_part))
    IN  RAdd(s.a[index], RMul(inner2, fractional_part))

\* a variant of Derivative that takes the cubic coefficient d for 3d
Derivative_ThirdOfThreeD(s, fractional_part, index) ==
    LET inner == RAdd(s.two_c[index],
                      RMul(RMul(<<1, 3>>, s.three_d[index]), fractional_part))
    IN  RAdd(s.b[index], RMul(inner, fractional_part))

\* lines 160-162: the derivative of the cubic of segment index
Derivative(s, fractional_part, index) ==
    LET inner == RAdd(s.two_c[index], RMul(s.three_d[index], fractional_part))
    IN  RAdd(s.b[index], RMul(inner, fractional_part))

(* ------------- ConditionalCNF and TrajCNF on tensor values ------------- *)
\* A log-density or an accumulated log-determinant is a scalar
\* rat + ln2 * ln(2) + ln2pi * ln(2*pi) with rational coefficients; 1, ln 2
\* and ln(2*pi) are linearly independent over the rationals, so two such
\* scalars are equal exactly when their coefficients are.
LVal(q, k, m) == [rat |-> q, ln2 |-> k, ln2pi |-> m]
LZero == LVal(Zero, Zero, Zero)
LNeg(x) == LVal(RNeg(x.rat), RNeg(x.ln2), RNeg(x.ln2pi))
LAdd(x, y) == LVal(RAdd(x.rat, y.rat), RAdd(x.ln2, y.ln2), RAdd(x.ln2pi, y.ln2pi))
LSub(x, y) == LAdd(x, LNeg(y))
LScale(r, x) == LVal(RMul(r, x.rat), RMul(r, x.ln2), RMul(r, x.ln2pi))

\* 2^k for an integer k
Pow2(k) == IF k >= 0 THEN R(2 ^ k) ELSE Norm(1, 2 ^ (-k))

\* The index sets of a tensor of shape (batch, seq_len, input_dim) and of one
\* of shape (batch, seq_len)
Idx3(batch, seq_len, input_dim) ==
    (0..(batch - 1)) \X (0..(seq_len - 1)) \X (0..(input_dim - 1))
Idx2(batch, seq_len) == (0..(batch - 1)) \X (0..(seq_len - 1))
\* z.shape[0] of a tensor z of a model with the given seq_len and input_dim
BatchOf(z, seq_len, input_dim) == Cardinality(DOMAIN z) \div (seq_len * input_dim)

\* The time derivative is a ConditionalODE without hidden layers: the single
\* Linear layer of line 246 applied to cat(t, positional encoding, z,
\* condition) (lines 253-259), with one condition channel.  Its weights are
\* integers: lam is the weight of z[..., i] in z_dot[..., i], in units of
\* ln 2, and wt, wp, wc and bias are the weights of the time encoding, the
\* positional encoding and the condition and the bias, the same for every
\* channel.  A network either scales (lam # 0, the rest 0) or translates
\* (lam = 0), which keeps the solution of the ODE rational at integer times.
Network(lam, wt, wp, wc, bias) ==
    [lam |-> lam, wt |-> wt, wp |-> wp, wc |-> wc, bias |-> bias]
ZeroNetwork == Network(0, 0, 0, 0, 0)
Networks ==
    {ZeroNetwork, Network(1, 0, 0, 0, 0), Network(-1, 0, 0, 0, 0),
     Network(0, 0, 0, 1, 0), Network(0, 2, 1, 0, 1)}

\* line 253: cumsum(ones)[s] / seq_len
PositionalEncoding(s, seq_len) == Norm(s + 1, seq_len)

\* a variant of JacobianTraceOf that differentiates the identity
JacobianTraceOf_Identity(nw, input_dim) == LVal(Zero, R(input_dim), Zero)

\* lines 266-271 on this network: the sum over the input_dim channels of
\* d z_dot[b, s, i] / d z[b, s, i] = lam * ln 2, the same at every (b, s)
JacobianTraceOf(nw, input_dim) == LVal(Zero, R(input_dim * nw.lam), Zero)

\* line 282: the derivative of the state (z, delta_logpz) is
\* (z_dot, -divergence)
DeltaDot(nw, input_dim) == LNeg(JacobianTraceOf(nw, input_dim))

\* odeint_adjoint (torchdiffeq) with the ConditionalODE as the function, by
\* its contract: the exact solution at time t1 of the state that is st at
\* time t0.  z[b, s, i] is scaled by 2^(lam * (t1 - t0)), or translated by
\* the integral of wt*t + wp*pos[s] + wc*condition[b] + bias over [t0, t1];
\* delta_logpz[b, s] moves by DeltaDot * (t1 - t0).
AdvanceZ(nw, seq_len, cond, zv, b, s, t0, t1) ==
    IF nw.lam # 0 THEN RMul(zv, Pow2(nw.lam * (t1 - t0)))
    ELSE RAdd(zv,
              RAdd(RMul(R(nw.wt), Norm(t1 * t1 - t0 * t0, 2)),
                   RMul(RAdd(RAdd(RMul(R(nw.wp), PositionalEncoding(s, seq_len)),
                                  RMul(R(nw.wc), cond[b])),
                             R(nw.bias)),
                        R(t1 - t0))))
Advance(nw, seq_len, input_dim, cond, st, t0, t1) ==
    [z |-> [x \in DOMAIN st.z |->
               AdvanceZ(nw, seq_len, cond, st.z[x], x[1], x[2], t0, t1)],
     delta_logpz |-> [x \in DOMAIN st.delta_logpz |->
               LAdd(st.delta_logpz[x],
                    LScale(R(t1 - t0), DeltaDot(nw, input_dim)))]]

\* line 292: torch.zeros(z.shape[0], z.shape[1])
DefaultDeltaLogpz(batch, seq_len) == [x \in Idx2(batch, seq_len) |-> LZero]
\* a variant of DefaultIntegrationTimes that runs from 1 to 0
DefaultIntegrationTimes_Backward == (0 :> 1 @@ 1 :> 0)
\* line 294: torch.tensor([0.0, 1.0])
DefaultIntegrationTimes == (0 :> 0 @@ 1 :> 1)

\* a variant of Flip that leaves the order alone
Flip_Identity(t) == t

\* line 296: torch.flip(integration_times, [0]), a new tensor
Flip(t) == [k \in DOMAIN t |-> t[Len0(t) - 1 - k]]

\* a variant of TerminalState that takes the first entry of the solution
TerminalState_Initial(s) == s[0]

\* line 302: s[1] of a solution s
TerminalState(s) == s[1]

\* lines 314-315: the buffers of a new TrajCNF
BaseDistMean(seq_len, input_dim) ==
    [x \in (0..(seq_len - 1)) \X (0..(input_dim - 1)) |-> Zero]
BaseDistVar(seq_len, input_dim) ==
    [x \in (0..(seq_len - 1)) \X (0..(input_dim - 1)) |-> R(1)]

RECURSIVE RSum(_, _)
\* the sum of f over the indices 0..n-1
RSum(f, n) == IF n = 0 THEN Zero ELSE RAdd(RSum(f, n - 1), f[n - 1])

\* line 319 and line 342: MultivariateNormal(mean, diag_embed(var)).log_prob
\* at row (b, s) of z, an event of input_dim channels:
\* -(sum_i (z_i - mean_i)^2 / var_i + sum_i ln var_i + input_dim*ln(2 pi)) / 2.
\* ln var_i is 0 for the variance 1 a model is constructed with; another
\* variance has no value in the model (nan).
BaseLogProb(mean, var, input_dim, z, b, s) ==
    LET d(i) == RSub(z[<<b, s, i>>], mean[<<s, i>>])
        maha == RSum([i \in 0..(input_dim - 1) |->
                        RDiv(RMul(d(i), d(i)), var[<<s, i>>])], input_dim)
        logdet == IF \A i \in 0..(input_dim - 1) : var[<<s, i>>] = R(1)
                  THEN Zero ELSE NaN
    IN  LVal(RMul(<<-1, 2>>, RAdd(maha, logdet)), Zero, Norm(-input_dim, 2))

\* a variant of CorrectedLogProb that adds the accumulator
CorrectedLogProb_Plus(logpz_t0_, delta) ==
    [x \in DOMAIN logpz_t0_ |-> LAdd(logpz_t0_[x], delta[x])]

\* line 343: logpz_t1 = logpz_t0 - delta_logpz
CorrectedLogProb(logpz_t0_, delta) ==
    [x \in DOMAIN logpz_t0_ |-> LSub(logpz_t0_[x], delta[x])]

(* ------------------------------ state ---------------------------------- *)
VARIABLES
    \* a NaturalCubicSpline object: the constructor's arguments, its
    \* coefficients, and whether __init__ returned or raised
    times, path, spline, spc,
    \* the last evaluate(t) / derivative(t) call on it: t, which method,
    \* the locals index and fractional_part of _interpret_t, and the result
    qt, qkind, qindex, qfrac, qout,
    \* a _tridiagonal_solve call: its arguments b, A_upper, A_diagonal,
    \* A_lower, the object arrays new_b, new_A_diagonal and outs (an entry is
    \* in the domain once it has been assigned), the loop variable i, the
    \* position in the function and the returned tensor
    tb, tU, tD, tL, new_b, new_A_diagonal, outs, ti, tpc, tret,
    \* a CasualEncoder.forward(t, x) call: its arguments, the gain of the
    \* vector field, the locals spline, z0 and out (out[k] is in the domain
    \* once odeint has produced it), the position in the function and the
    \* returned embedding
    et, ex, egain, espline, ez0, eout, epc, eret,
    \* one ConditionalCNF model used by concurrent forward calls: the field
    \* time_derivative.condition of the model, and per call its position,
    \* its condition argument and the conditions its drift evaluations read
    condition, fpc, fcond, fused,
    \* a TrajCNF.sample(x, feat, num_samples) call on tensor shapes: the
    \* model's dimensions, the shape of x, num_samples, the shapes of the
    \* locals y and embedding and of the returned z and delta_logpz, the
    \* number of _embedding calls, and the position in the function
    mdims, x_shape, num_samples, y_shape, embedding_shape, z_shape,
    delta_logpz_shape, embedding_calls, mpc,
    \* a TrajCNF model on tensor values: the weights of its time derivative,
    \* its seq_len and input_dim, its two buffers and the field
    \* time_derivative.condition; a ConditionalCNF.forward call on it, made
    \* directly or by sample(): the arguments as passed, the locals
    \* delta_logpz and integration_times, the solution state of odeint
    \* (state[k] is in the domain once produced), the returned value, the
    \* position in the function, the number of the call and the z the first
    \* call was given
    net, cdims, base_dist_mean, base_dist_var, ode_condition,
    cmode, z_in, condition_in, delta_in, times_in, reverse,
    delta_logpz, integration_times, state, cret, cpc, ccall, z_first,
    \* the delta_logpz the first call returned, once a second call is made
    delta_first,
    \* a TrajCNF.log_prob call on that model: its arguments, the two returned
    \* tensors and the position in the function
    lp_z, lp_delta, logpz_t0, logpz_t1, lpc,
    \* a ConditionalODE.forward(t, states) call: the weights of the Linear
    \* layer, the shape of z, the arguments t and z, self.condition, the
    \* caller's gradient mode and the current one, the requires_grad flags of
    \* z and t, the locals z_dot (and whether autograd recorded it) and trace,
    \* the loop variable i of _jacobian_trace, the returned pair and the
    \* position in the function
    layer, oshape, ot, oz, ocond, caller_grad, grad_enabled, z_requires_grad,
    t_requires_grad, z_dot, z_dot_tracked, trace, oi, oret, opc,
    \* a ConditionalODE and a _z_dot call on it, on modules: input_dim and
    \* condition_dim, the locals dim_list and layers of __init__ (layers
    \* becomes self.layers), the loop variable i of __init__ and of _z_dot,
    \* the locals tpz_cat and z_dot of _z_dot (the operations that produced
    \* them and the size of their last dimension), and the position
    zinput_dim, zcondition_dim, dim_list, layers, zi, tpz_cat, tpz_cat_dim,
    z_dot_ops, z_dot_dim, zpc,
    \* an InD: its train_ratio and its dict observation_sites, the argument
    \* site of the running _get_observation_site call, what the last property
    \* access gave its caller, the position in the access, and a record of
    \* the instance's past: per site key the number of _load_observation_site
    \* calls, of those that returned, the objects accesses returned and the
    \* number of accesses, and the number of InDObservationSite objects made
    train_ratio, observation_sites, isite, iret, ipc,
    load_calls, load_returns, site_returns, num_accesses, num_objects

splineVars == <<times, path, spline, spc, qt, qkind, qindex, qfrac, qout>>
triVars == <<tb, tU, tD, tL, new_b, new_A_diagonal, outs, ti, tpc, tret>>
encVars == <<et, ex, egain, espline, ez0, eout, epc, eret>>
flowVars == <<condition, fpc, fcond, fused>>
sampleVars == <<mdims, x_shape, num_samples, y_shape, embedding_shape, z_shape,
                delta_logpz_shape, embedding_calls, mpc>>
cnfVars == <<net, cdims, base_dist_mean, base_dist_var, ode_condition,
             cmode, z_in, condition_in, delta_in, times_in, reverse,
             delta_logpz, integration_times, state, cret, cpc, ccall, z_first,
             delta_first>>
logProbVars == <<lp_z, lp_delta, logpz_t0, logpz_t1, lpc>>
odeVars == <<layer, oshape, ot, oz, ocond, caller_grad, grad_enabled,
             z_requires_grad, t_requires_grad, z_dot, z_dot_tracked, trace, oi,
             oret, opc>>
zDotVars == <<zinput_dim, zcondition_dim, dim_list, layers, zi, tpz_cat,
              tpz_cat_dim, z_dot_ops, z_dot_dim, zpc>>
indVars == <<train_ratio, observation_sites, isite, iret, ipc,
             load_calls, load_returns, site_returns, num_accesses, num_objects>>
vars == <<splineVars, triVars, encVars, flowVars, sampleVars, cnfVars,
          logProbVars, odeVars, zDotVars, indVars>>
\* what an action of one component leaves alone: the other components
notSpline == <<triVars, encVars, flowVars, sampleVars, cnfVars, logProbVars, odeVars,
    zDotVars, indVars>>
notTri == <<splineVars, encVars, flowVars, sampleVars, cnfVars, logProbVars, odeVars,
    zDotVars, indVars>>
notEnc == <<splineVars, triVars, flowVars, sampleVars, cnfVars, logProbVars, odeVars,
    zDotVars, indVars>>
notFlow == <<splineVars, triVars, encVars, sampleVars, cnfVars, logProbVars, odeVars,
    zDotVars, indVars>>
notSample == <<splineVars, triVars, encVars, flowVars, cnfVars, logProbVars, odeVars,
    zDotVars, indVars>>
notCnf == <<splineVars, triVars, encVars, flowVars, sampleVars, odeVars,
    zDotVars, indVars>>
notOde == <<splineVars, triVars, encVars, flowVars, sampleVars, cnfVars,
            logProbVars, zDotVars, indVars>>
notZDot == <<splineVars, triVars, encVars, flowVars, sampleVars, cnfVars,
             logProbVars, odeVars, indVars>>
notInd == <<splineVars, triVars, encVars, flowVars, sampleVars, cnfVars,
            logProbVars, odeVars, zDotVars>>

\* The control paths a spline is constructed from.  The first knot time is
\* drawn from FirstTimes and each later one is the one before plus a gap from
\* Gaps: a gap >= 1 keeps the times strictly increasing, 0 repeats a time and
\* -1 goes back in time.  Values are drawn from 0..MaxVal.
FirstTimes == {0, 1}
Gaps == {-1, 0, 1, 2}
PathValues == 0..MaxVal
RECURSIVE TimeAt(_, _, _)
TimeAt(first, gaps, i) ==
    IF i = 0 THEN first ELSE TimeAt(first, gaps, i - 1) + gaps[i - 1]
KnotTimeSeqs(n) ==
    IF n = 0 THEN {<<>>}
    ELSE {[i \in 0..(n - 1) |-> TimeAt(first, gaps, i)] :
             first \in FirstTimes, gaps \in [0..(n - 2) -> Gaps]}
ControlPaths(n) == KnotTimeSeqs(n) \X [0..(n - 1) -> PathValues]

\* The times an object is queried at: every knot, the midpoint of every
\* segment, and one time unit before the first and after the last knot.
QueryTimes(tm) ==
    LET n == Len0(tm)
    IN  {R(tm[i]) : i \in 0..(n - 1)}
        \cup {Norm(tm[i] + tm[i + 1], 2) : i \in 0..(n - 2)}
        \cup {R(tm[0] - 1), R(tm[n - 1] + 1)}

SplineInit ==
    /\ times = <<>> /\ path = <<>> /\ spline = NoSpline /\ spc = "new"
    /\ qt = Zero /\ qkind = "none" /\ qindex = 0 /\ qfrac = Zero /\ qout = Zero

\* NaturalCubicSpline(times, path): lines 23-37; a behaviour follows one object
Construct(tm, p) ==
    LET c == Coefficients(tm, p)
    IN  /\ spc = "new"
        /\ times' = tm
        /\ path' = p
        /\ spline' = c.coeffs
        /\ spc' = IF c.raised THEN "raised" ELSE "constructed"
        /\ qt' = Zero /\ qkind' = "none" /\ qindex' = 0
        /\ qfrac' = Zero /\ qout' = Zero
        /\ UNCHANGED notSpline

\* spline.evaluate(t): lines 150-155
DoEvaluate(t) ==
    /\ spc = "constructed" /\ qkind = "none"
    /\ LET it == InterpretT(times, spline, t)
       IN  /\ qindex' = it.index
           /\ qfrac' = it.fractional_part
           /\ qout' = Evaluate(spline, it.fractional_part, it.index)
    /\ qt' = t /\ qkind' = "evaluate"
    /\ UNCHANGED <<times, path, spline, spc>>
    /\ UNCHANGED notSpline

\* spline.derivative(t): lines 157-162
DoDerivative(t) ==
    /\ spc = "constructed" /\ qkind = "none"
    /\ LET it == InterpretT(times, spline, t)
       IN  /\ qindex' = it.index
           /\ qfrac' = it.fractional_part
           /\ qout' = Derivative(spline, it.fractional_part, it.index)
    /\ qt' = t /\ qkind' = "derivative"
    /\ UNCHANGED <<times, path, spline, spc>>
    /\ UNCHANGED notSpline

\* the caller takes the result; the object is unchanged and can be asked again
QueryReturn ==
    /\ qkind # "none"
    /\ qt' = Zero /\ qkind' = "none" /\ qindex' = 0
    /\ qfrac' = Zero /\ qout' = Zero
    /\ UNCHANGED <<times, path, spline, spc>>
    /\ UNCHANGED notSpline

SplineNext ==
    \/ spc = "new" /\ \E n \in 0..MaxLen : \E cp \in ControlPaths(n) :
            Construct(cp[1], cp[2])
    \/ spc = "constructed" /\ \E t \in QueryTimes(times) : DoEvaluate(t)
    \/ spc = "constructed" /\ \E t \in QueryTimes(times) : DoDerivative(t)
    \/ QueryReturn

(* -------------- _tridiagonal_solve, statement by statement ------------- *)
\* the systems the solver is called with directly
DiagValues == {1, 2}
OffValues == {-1, 1}
RhsValues == {0, 1}
RFun(f) == [i \in DOMAIN f |-> R(f[i])]
Systems(k) ==
    [b : [0..(k - 1) -> RhsValues], U : [0..(k - 2) -> OffValues],
     D : [0..(k - 1) -> DiagValues], L : [0..(k - 2) -> OffValues]]

TriInit ==
    /\ tb = <<>> /\ tU = <<>> /\ tD = <<>> /\ tL = <<>>
    /\ new_b = <<>> /\ new_A_diagonal = <<>> /\ outs = <<>>
    /\ ti = 0 /\ tpc = "idle" /\ tret = <<>>

TriChannels == Len0(tb)

\* a variant of Assign that stores one entry too low
Assign_Shifted(arr, i, v) ==
    [j \in DOMAIN arr \cup {Max(i - 1, 0)} |-> IF j = Max(i - 1, 0) THEN v ELSE arr[j]]

\* arr[i] = v on one of the object arrays of lines 125-127 (lines 129, 130,
\* 133, 134, 136, 138): the entry is stored, whether or not it was assigned
\* before, and every other entry is left alone
Assign(arr, i, v) ==
    [j \in DOMAIN arr \cup {i} |-> IF j = i THEN v ELSE arr[j]]

\* lines 119-130: the call, the three empty arrays and the first row
TriCall(b, U, D, L) ==
    /\ tpc = "idle"
    /\ tb' = b /\ tU' = U /\ tD' = D /\ tL' = L
    /\ new_b' = Assign(<<>>, 0, b[0])
    /\ new_A_diagonal' = Assign(<<>>, 0, D[0])
    /\ outs' = <<>>
    /\ ti' = 1 /\ tpc' = "forward" /\ tret' = <<>>
    /\ UNCHANGED notTri

\* lines 131-134: one iteration of the forward elimination
TriForward ==
    /\ tpc = "forward" /\ ti < TriChannels
    /\ new_A_diagonal' =
          Assign(new_A_diagonal, ti, ForwardDiagonal(tU, tD, tL, new_A_diagonal, ti))
    /\ new_b' = Assign(new_b, ti, ForwardRhs(tb, tL, new_A_diagonal, new_b, ti))
    /\ ti' = ti + 1
    /\ UNCHANGED <<tb, tU, tD, tL, outs, tpc, tret>>
    /\ UNCHANGED notTri

\* line 136, after the forward loop has ended
TriBackFirst ==
    /\ tpc = "forward" /\ ti >= TriChannels
    /\ outs' = Assign(outs, TriChannels - 1,
                      BackFirst(new_b, new_A_diagonal, TriChannels))
    /\ ti' = TriChannels - 2 /\ tpc' = "backward"
    /\ UNCHANGED <<tb, tU, tD, tL, new_b, new_A_diagonal, tret>>
    /\ UNCHANGED notTri

\* lines 137-138: one iteration of the backward substitution
TriBackward ==
    /\ tpc = "backward" /\ ti >= 0
    /\ outs' = Assign(outs, ti, BackStep(new_b, tU, new_A_diagonal, outs, ti))
    /\ ti' = ti - 1
    /\ UNCHANGED <<tb, tU, tD, tL, new_b, new_A_diagonal, tpc, tret>>
    /\ UNCHANGED notTri

\* line 140: torch.stack(outs.tolist(), dim=-1)
TriReturn ==
    /\ tpc = "backward" /\ ti < 0
    /\ tret' = outs /\ tpc' = "returned"
    /\ UNCHANGED <<tb, tU, tD, tL, new_b, new_A_diagonal, outs, ti>>
    /\ UNCHANGED notTri

TriNext ==
    \/ tpc = "idle" /\ \E k \in 1..MaxSize : \E sys \in Systems(k) :
          TriCall(RFun(sys.b), RFun(sys.U), RFun(sys.D), RFun(sys.L))
    \/ TriForward
    \/ TriBackFirst
    \/ TriBackward
    \/ TriReturn

(* ----------------------- CasualEncoder.forward ------------------------- *)
\* The learned maps are fixed to the simplest members of their families:
\* embed and readout are the identity (lines 227-228) and the CDE field f(z)
\* is a 1x1 matrix that does not depend on z (line 229), so the vector field
\* of line 220 is gain * dX/dt(t).
Embed(v) == v
Readout(z) == z
Gains == {<<1, 2>>, <<-1, 2>>}

\* odeint_adjoint (torchdiffeq), by its contract: out[0] is the initial value
\* and out[k] the solution at t[k].  For the field gain * dX/dt the solution
\* advances from t[k-1] to t[k] by gain * (X(t[k]) - X(t[k-1])).
SplineAt(tm, s, t) ==
    LET it == InterpretT(tm, s, t)
    IN  Evaluate(s, it.fractional_part, it.index)
OdeAdvance(tm, s, gain, z, k) ==
    RAdd(z, RMul(gain, RSub(SplineAt(tm, s, R(tm[k])),
                            SplineAt(tm, s, R(tm[k - 1])))))

\* line 236: the entry of out that is read out
ReadoutIndex == 1

EncInit ==
    /\ et = <<>> /\ ex = <<>> /\ egain = Zero /\ espline = NoSpline
    /\ ez0 = Zero /\ eout = <<>> /\ epc = "idle" /\ eret = Zero

\* lines 231-233: the call and the spline over (t, x)
EncCall(t, x, gain) ==
    LET c == Coefficients(t, x)
    IN  /\ epc = "idle"
        /\ et' = t /\ ex' = x /\ egain' = gain
        /\ espline' = c.coeffs
        /\ epc' = IF c.raised THEN "raised" ELSE "embed"
        /\ UNCHANGED <<ez0, eout, eret>>
        /\ UNCHANGED notEnc

\* line 234: z0 = self.embed(spline.evaluate(t[0]))
EncEmbed ==
    /\ epc = "embed"
    /\ ez0' = Embed(SplineAt(et, espline, R(et[0])))
    /\ epc' = "solve"
    /\ UNCHANGED <<et, ex, egain, espline, eout, eret>>
    /\ UNCHANGED notEnc

\* line 235: odeint_adjoint produces the state at the next timestamp
EncSolve ==
    /\ epc = "solve" /\ Len0(eout) < Len0(et)
    /\ LET k == Len0(eout)
       IN  eout' = IF k = 0 THEN (0 :> ez0)
                   ELSE eout @@ (k :> OdeAdvance(et, espline, egain, eout[k - 1], k))
    /\ UNCHANGED <<et, ex, egain, espline, ez0, epc, eret>>
    /\ UNCHANGED notEnc

\* lines 236-237: embedding = self.readout(out[1]); return embedding
EncReadout ==
    /\ epc = "solve" /\ Len0(eout) = Len0(et)
    /\ eret' = Readout(eout[ReadoutIndex])
    /\ epc' = "returned"
    /\ UNCHANGED <<et, ex, egain, espline, ez0, eout>>
    /\ UNCHANGED notEnc

\* the timestamps of an observed path: strictly increasing
Timestamps(n) == {tm \in KnotTimeSeqs(n) : StrictlyIncreasing(tm)}

EncNext ==
    \/ epc = "idle" /\ \E n \in 1..MaxLen : \E t \in Timestamps(n) :
          \E x \in [0..(n - 1) -> PathValues] : \E gain \in Gains :
              EncCall(t, x, gain)
    \/ EncEmbed
    \/ EncSolve
    \/ EncReadout

(* ------------- ConditionalCNF.forward, concurrent callers -------------- *)
\* the callers of forward on one model, and the embeddings they pass
Calls == {1, 2}
Embeddings == {"e1", "e2"}
None == "None"

\* line 250: self.condition = None
FlowInit ==
    /\ condition = None
    /\ fpc = [c \in Calls |-> "idle"]
    /\ fcond = [c \in Calls |-> None]
    /\ fused = [c \in Calls |-> {}]

\* lines 290-296: the call binds its arguments and locals
FlowEnter(c, cond) ==
    /\ fpc[c] = "idle"
    /\ fpc' = [fpc EXCEPT ![c] = "entered"]
    /\ fcond' = [fcond EXCEPT ![c] = cond]
    /\ fused' = [fused EXCEPT ![c] = {}]
    /\ UNCHANGED condition
    /\ UNCHANGED notFlow

\* line 298: self.time_derivative.condition = condition
FlowSetCondition(c) ==
    /\ fpc[c] = "entered"
    /\ condition' = fcond[c]
    /\ fpc' = [fpc EXCEPT ![c] = "integrating"]
    /\ UNCHANGED <<fcond, fused>>
    /\ UNCHANGED notFlow

\* line 299: odeint_adjoint evaluates the drift, any number of times; _z_dot
\* reads self.condition (line 255)
FlowDriftEval(c) ==
    /\ fpc[c] = "integrating"
    /\ fused' = [fused EXCEPT ![c] = @ \cup {condition}]
    /\ UNCHANGED <<condition, fpc, fcond>>
    /\ UNCHANGED notFlow

\* lines 301-304: the solver has finished (after at least one drift
\* evaluation) and the call returns
FlowReturn(c) ==
    /\ fpc[c] = "integrating" /\ fused[c] # {}
    /\ fpc' = [fpc EXCEPT ![c] = "returned"]
    /\ UNCHANGED <<condition, fcond, fused>>
    /\ UNCHANGED notFlow

FlowNext ==
    \/ \E c \in Calls : \E cond \in Embeddings : FlowEnter(c, cond)
    \/ \E c \in Calls : FlowSetCondition(c)
    \/ \E c \in Calls : FlowDriftEval(c)
    \/ \E c \in Calls : FlowReturn(c)

(* --------------------- TrajCNF.sample, on shapes ----------------------- *)
\* A tensor is modelled by its shape, a tuple of sizes; Raised stands for the
\* RuntimeError a shape mismatch raises.
Raised == <<"RuntimeError">>

\* torch.stack of n tensors of one shape along a new first dimension
StackShape(n, shape) == <<n>> \o shape
\* torch.cat(tensors, dim=-1): every size but the last must agree
CatLast(s1, s2) ==
    IF Len(s1) = Len(s2)
         /\ \A d \in 1..(Len(s1) - 1) : s1[d] = s2[d]
    THEN [d \in 1..Len(s1) |-> IF d = Len(s1) THEN s1[d] + s2[d] ELSE s1[d]]
    ELSE Raised
\* lines 314-319: a draw from the base distribution
BaseSampleShape(dims) == <<dims.seq_len, dims.input_dim>>
\* lines 321-324: cat([x, feat], -1), the GRU, and embedding[:, -1, :]
EmbeddingShape(dims, xs) == <<xs[1], dims.embedding_dim>>
\* line 255: self.condition.unsqueeze(1).expand(-1, z.shape[1], -1)
ConditionShape(es, zs) == <<es[1], zs[2], es[2]>>
\* lines 253-264: the shape of _z_dot(t, z), which line 256 starts by
\* torch.cat([z, condition], dim=-1); the last Linear maps to input_dim
ZDotShape(dims, zs, es) ==
    IF CatLast(zs, ConditionShape(es, zs)) = Raised THEN Raised
    ELSE <<zs[1], zs[2], dims.input_dim>>

ModelDims ==
    [seq_len : 1..MaxDim, input_dim : 1..MaxDim, embedding_dim : 1..MaxDim]

SampleInit ==
    /\ mdims = [seq_len |-> 1, input_dim |-> 1, embedding_dim |-> 1]
    /\ x_shape = <<>> /\ num_samples = 0 /\ y_shape = <<>>
    /\ embedding_shape = <<>> /\ z_shape = <<>> /\ delta_logpz_shape = <<>>
    /\ embedding_calls = 0 /\ mpc = "idle"

\* line 335: sample(x, feat, num_samples) on a model of dimensions dims; x
\* holds batch observed trajectories of obs_len steps
SampleCall(dims, batch, obs_len, n) ==
    /\ mpc = "idle"
    /\ mdims' = dims
    /\ x_shape' = <<batch, obs_len, dims.input_dim>>
    /\ num_samples' = n
    /\ mpc' = "draw"
    /\ UNCHANGED <<y_shape, embedding_shape, z_shape, delta_logpz_shape,
                   embedding_calls>>
    /\ UNCHANGED notSample

\* line 336: y = torch.stack([self._base_dist.sample() ...])
SampleDraw ==
    /\ mpc = "draw"
    /\ y_shape' = StackShape(num_samples, BaseSampleShape(mdims))
    /\ mpc' = "embed"
    /\ UNCHANGED <<mdims, x_shape, num_samples, embedding_shape, z_shape,
                   delta_logpz_shape, embedding_calls>>
    /\ UNCHANGED notSample

\* line 337: embedding = self._embedding(x, feat)
SampleEmbed ==
    /\ mpc = "embed"
    /\ embedding_shape' = EmbeddingShape(mdims, x_shape)
    /\ embedding_calls' = embedding_calls + 1
    /\ mpc' = "flow"
    /\ UNCHANGED <<mdims, x_shape, num_samples, y_shape, z_shape,
                   delta_logpz_shape>>
    /\ UNCHANGED notSample

\* lines 338-339: self.flow(y, embedding, reverse=True); the first drift
\* evaluation of the solve raises when z and the condition do not line up
SampleFlow ==
    /\ mpc = "flow"
    /\ LET zd == ZDotShape(mdims, y_shape, embedding_shape)
       IN  IF zd = Raised
           THEN /\ mpc' = "raised"
                /\ UNCHANGED <<z_shape, delta_logpz_shape>>
           ELSE /\ mpc' = "returned"
                /\ z_shape' = zd
                /\ delta_logpz_shape' = <<y_shape[1], y_shape[2]>>
    /\ UNCHANGED <<mdims, x_shape, num_samples, y_shape, embedding_shape,
                   embedding_calls>>
    /\ UNCHANGED notSample

SampleNext ==
    \/ mpc = "idle" /\ \E dims \in ModelDims : \E batch \in 1..MaxBatch :
          \E obs_len \in 1..MaxDim : \E n \in 1..MaxSamples :
              SampleCall(dims, batch, obs_len, n)
    \/ SampleDraw
    \/ SampleEmbed
    \/ SampleFlow

\* the models that are constructed and the tensors they are called with:
\* (seq_len, input_dim) of the model, batch sizes, and tensors that are
\* constant or differ at every index
NoTensor == <<>>
CnfDims == {<<1, 1>>, <<2, 1>>, <<1, 2>>}
CnfBatches == {1, 2}
ZTensors(batch, seq_len, input_dim) ==
    {[x \in Idx3(batch, seq_len, input_dim) |-> R(0)],
     [x \in Idx3(batch, seq_len, input_dim) |-> R(1)],
     [x \in Idx3(batch, seq_len, input_dim) |-> R(x[1] + x[2] + x[3] + 2)]}
ConditionTensors(batch) ==
    {[b \in 0..(batch - 1) |-> R(0)], [b \in 0..(batch - 1) |-> R(b + 1)]}
DeltaTensors(batch, seq_len) ==
    {NoTensor, [x \in Idx2(batch, seq_len) |-> LVal(R(1), Zero, Zero)]}
TimeGrids ==
    {NoTensor, (0 :> 0 @@ 1 :> 1), (0 :> 1 @@ 1 :> 3), (0 :> 2 @@ 1 :> 0),
     (0 :> 0 @@ 1 :> 1 @@ 2 :> 2)}
NoReturn == [z |-> NoTensor, delta_logpz |-> NoTensor, time_axis |-> FALSE]

CnfInit ==
    /\ net = ZeroNetwork /\ cdims = [seq_len |-> 0, input_dim |-> 0]
    /\ base_dist_mean = NoTensor /\ base_dist_var = NoTensor
    /\ ode_condition = NoTensor
    /\ cmode = "none" /\ z_in = NoTensor /\ condition_in = NoTensor
    /\ delta_in = NoTensor /\ times_in = NoTensor /\ reverse = FALSE
    /\ delta_logpz = NoTensor /\ integration_times = NoTensor
    /\ state = <<>> /\ cret = NoReturn /\ cpc = "new"
    /\ ccall = 0 /\ z_first = NoTensor /\ delta_first = NoTensor
    /\ lp_z = NoTensor /\ lp_delta = NoTensor
    /\ logpz_t0 = NoTensor /\ logpz_t1 = NoTensor /\ lpc = "idle"

\* TrajCNF(seq_len, input_dim, ...): lines 308-315, with the ConditionalCNF
\* of lines 287-288 and the ConditionalODE of lines 241-250 (condition None)
NewTrajCNF(nw, seq_len, input_dim) ==
    /\ cpc = "new"
    /\ net' = nw
    /\ cdims' = [seq_len |-> seq_len, input_dim |-> input_dim]
    /\ base_dist_mean' = BaseDistMean(seq_len, input_dim)
    /\ base_dist_var' = BaseDistVar(seq_len, input_dim)
    /\ ode_condition' = NoTensor
    /\ cpc' = "idle"
    /\ UNCHANGED <<cmode, z_in, condition_in, delta_in, times_in, reverse,
                   delta_logpz, integration_times, state, cret, ccall, z_first,
                   delta_first>>
    /\ UNCHANGED logProbVars
    /\ UNCHANGED notCnf

\* line 290: flow.forward(z, condition, delta_logpz, integration_times,
\* reverse) is entered; NoTensor stands for an argument left at None
ForwardCall(z, cond, delta, tms, rev) ==
    /\ cpc = "idle" /\ lpc = "idle"
    /\ cmode' = "forward"
    /\ z_in' = z /\ condition_in' = cond /\ delta_in' = delta
    /\ times_in' = tms /\ reverse' = rev
    /\ delta_logpz' = delta /\ integration_times' = tms
    /\ state' = <<>> /\ cret' = NoReturn /\ cpc' = "defaults"
    /\ ccall' = 1 /\ z_first' = z /\ delta_first' = NoTensor
    /\ UNCHANGED <<net, cdims, base_dist_mean, base_dist_var, ode_condition>>
    /\ UNCHANGED logProbVars
    /\ UNCHANGED notCnf

\* lines 336-338: sample() with one base sample y per observed trajectory
\* and the embedding of the observations enters
\* self.flow(y, embedding, reverse=True)
SampleValues(y, embedding) ==
    /\ cpc = "idle" /\ lpc = "idle"
    /\ cmode' = "sample"
    /\ z_in' = y /\ condition_in' = embedding /\ delta_in' = NoTensor
    /\ times_in' = NoTensor /\ reverse' = TRUE
    /\ delta_logpz' = NoTensor /\ integration_times' = NoTensor
    /\ state' = <<>> /\ cret' = NoReturn /\ cpc' = "defaults"
    /\ ccall' = 1 /\ z_first' = y /\ delta_first' = NoTensor
    /\ UNCHANGED <<net, cdims, base_dist_mean, base_dist_var, ode_condition>>
    /\ UNCHANGED logProbVars
    /\ UNCHANGED notCnf

\* lines 291-294: the defaults of delta_logpz and integration_times
CnfDefaults ==
    /\ cpc = "defaults"
    /\ delta_logpz' =
          IF delta_logpz = NoTensor
          THEN DefaultDeltaLogpz(BatchOf(z_in, cdims.seq_len, cdims.input_dim),
                                 cdims.seq_len)
          ELSE delta_logpz
    /\ integration_times' =
          IF integration_times = NoTensor THEN DefaultIntegrationTimes
          ELSE integration_times
    /\ cpc' = "flip"
    /\ UNCHANGED <<net, cdims, base_dist_mean, base_dist_var, ode_condition,
                   cmode, z_in, condition_in, delta_in, times_in, reverse,
                   state, cret, ccall, z_first,
                   delta_first>>
    /\ UNCHANGED logProbVars
    /\ UNCHANGED notCnf

\* lines 295-296: the local name is bound to the flipped copy
CnfFlip ==
    /\ cpc = "flip"
    /\ integration_times' =
          IF reverse THEN Flip(integration_times) ELSE integration_times
    /\ cpc' = "condition"
    /\ UNCHANGED <<net, cdims, base_dist_mean, base_dist_var, ode_condition,
                   cmode, z_in, condition_in, delta_in, times_in, reverse,
                   delta_logpz, state, cret, ccall, z_first,
                   delta_first>>
    /\ UNCHANGED logProbVars
    /\ UNCHANGED notCnf

\* line 298: self.time_derivative.condition = condition
CnfSetCondition ==
    /\ cpc = "condition"
    /\ ode_condition' = condition_in
    /\ cpc' = "solve"
    /\ UNCHANGED <<net, cdims, base_dist_mean, base_dist_var,
                   cmode, z_in, condition_in, delta_in, times_in, reverse,
                   delta_logpz, integration_times, state, cret, ccall, z_first,
                   delta_first>>
    /\ UNCHANGED logProbVars
    /\ UNCHANGED notCnf

\* line 299: odeint_adjoint produces the state at the next integration time;
\* the first entry is the initial state (z, delta_logpz)
CnfSolve ==
    /\ cpc = "solve" /\ Len0(state) < Len0(integration_times)
    /\ LET k == Len0(state)
       IN  state' =
              IF k = 0
              THEN (0 :> [z |-> z_in, delta_logpz |-> delta_logpz])
              ELSE state @@
                   (k :> Advance(net, cdims.seq_len, cdims.input_dim,
                                 ode_condition, state[k - 1],
                                 integration_times[k - 1], integration_times[k]))
    /\ UNCHANGED <<net, cdims, base_dist_mean, base_dist_var, ode_condition,
                   cmode, z_in, condition_in, delta_in, times_in, reverse,
                   delta_logpz, integration_times, cret, cpc, ccall, z_first,
                   delta_first>>
    /\ UNCHANGED logProbVars
    /\ UNCHANGED notCnf

\* lines 301-304 (and line 339 of sample): with two integration times the
\* entry s[1] of each component of the solution is returned, otherwise the
\* whole solution
CnfReturn ==
    /\ cpc = "solve" /\ Len0(state) = Len0(integration_times)
    /\ LET zs == [k \in DOMAIN state |-> state[k].z]
           ds == [k \in DOMAIN state |-> state[k].delta_logpz]
       IN  cret' =
              IF Len0(integration_times) = 2
              THEN [z |-> TerminalState(zs), delta_logpz |-> TerminalState(ds),
                    time_axis |-> FALSE]
              ELSE [z |-> zs, delta_logpz |-> ds, time_axis |-> TRUE]
    /\ cpc' = "returned"
    /\ UNCHANGED <<net, cdims, base_dist_mean, base_dist_var, ode_condition,
                   cmode, z_in, condition_in, delta_in, times_in, reverse,
                   delta_logpz, integration_times, state, ccall, z_first,
                   delta_first>>
    /\ UNCHANGED logProbVars
    /\ UNCHANGED notCnf

\* the caller sends the z a two-time call returned back through the flow in
\* the other direction, with the same condition and integration times
RoundTripCall ==
    /\ cpc = "returned" /\ ccall = 1 /\ ~cret.time_axis /\ lpc = "idle"
    /\ cmode' = IF cmode = "sample" THEN "forward_of_sample" ELSE "forward"
    /\ z_in' = cret.z /\ delta_in' = NoTensor /\ reverse' = ~reverse
    /\ delta_logpz' = NoTensor /\ integration_times' = times_in
    /\ state' = <<>> /\ cret' = NoReturn /\ cpc' = "defaults"
    /\ ccall' = 2 /\ delta_first' = cret.delta_logpz
    /\ UNCHANGED <<net, cdims, base_dist_mean, base_dist_var, ode_condition,
                   condition_in, times_in, z_first>>
    /\ UNCHANGED logProbVars
    /\ UNCHANGED notCnf

\* lines 341-344: log_prob(z_t0, delta_logpz); _base_dist (lines 318-319)
\* builds a new distribution from the buffers
LogProb(z_t0, delta) ==
    /\ lpc = "idle"
    /\ lp_z' = z_t0 /\ lp_delta' = delta
    /\ LET batch == BatchOf(z_t0, cdims.seq_len, cdims.input_dim)
           lp0 == [x \in Idx2(batch, cdims.seq_len) |->
                      BaseLogProb(base_dist_mean, base_dist_var,
                                  cdims.input_dim, z_t0, x[1], x[2])]
       IN  /\ logpz_t0' = lp0
           /\ logpz_t1' = CorrectedLogProb(lp0, delta)
    /\ lpc' = "returned"
    /\ UNCHANGED cnfVars
    /\ UNCHANGED notCnf

\* log_prob on tensors of the caller's, on a constructed model
LogProbCall(z_t0, delta) == cpc = "idle" /\ LogProb(z_t0, delta)

\* log_prob on the base samples and the accumulator that sample() returned
LogProbOfSample ==
    /\ cpc = "returned" /\ cmode = "sample" /\ ccall = 1
    /\ LogProb(z_in, cret.delta_logpz)

CnfNext ==
    \/ cpc = "new" /\ \E nw \in Networks : \E d \in CnfDims :
          NewTrajCNF(nw, d[1], d[2])
    \/ cpc = "idle" /\ lpc = "idle" /\ \E batch \in CnfBatches :
          \E z \in ZTensors(batch, cdims.seq_len, cdims.input_dim) :
          \E cond \in ConditionTensors(batch) :
          \E delta \in DeltaTensors(batch, cdims.seq_len) :
          \E tms \in TimeGrids : \E rev \in BOOLEAN :
              ForwardCall(z, cond, delta, tms, rev)
    \/ cpc = "idle" /\ lpc = "idle" /\ \E batch \in CnfBatches :
          \E y \in ZTensors(batch, cdims.seq_len, cdims.input_dim) :
          \E embedding \in ConditionTensors(batch) :
              SampleValues(y, embedding)
    \/ CnfDefaults
    \/ CnfFlip
    \/ CnfSetCondition
    \/ CnfSolve
    \/ CnfReturn
    \/ RoundTripCall
    \/ cpc = "idle" /\ lpc = "idle" /\ \E batch \in CnfBatches :
          \E z_t0 \in ZTensors(batch, cdims.seq_len, cdims.input_dim) :
          \E delta \in DeltaTensors(batch, cdims.seq_len) \ {NoTensor} :
              LogProbCall(z_t0, delta)
    \/ LogProbOfSample

(* -------------- ConditionalODE.forward, statement by statement --------- *)
\* The ConditionalODE has no hidden layers: self.layers is the single Linear
\* of line 246, from cat(t, positional encoding, z, condition) (one
\* condition channel) to the input_dim channels of z_dot.  lin.wz[i][j] is
\* the weight of z[..., j] in z_dot[..., i]; the weights of the time
\* encoding, the positional encoding and the condition and the bias are one
\* integer lin.aux, the same for every channel.
OdeShapes == {<<1, 1, 1>>, <<2, 1, 1>>, <<1, 2, 2>>, <<2, 2, 2>>}
WeightValues == {0, 1}
Linears(input_dim) ==
    [wz : [0..(input_dim - 1) -> [0..(input_dim - 1) -> WeightValues]],
     aux : WeightValues]
NoLinear == [wz |-> <<>>, aux |-> 0]
OdeTimes == {0, 1}

\* lines 253-261 for one row (b, s) and one output channel i: the Linear
\* layer on cat(time_encoding, positional_encoding, z, condition)
LinearRow(lin, t, pos, z, cond, b, s, i, input_dim) ==
    RAdd(RSum([j \in 0..(input_dim - 1) |->
                  RMul(R(lin.wz[i][j]), z[<<b, s, j>>])], input_dim),
         RMul(R(lin.aux), RAdd(RAdd(R(t), pos), RAdd(cond[b], R(1)))))

\* _z_dot(t, z): lines 252-264
ZDot(lin, t, z, cond, shape) ==
    [x \in Idx3(shape[1], shape[2], shape[3]) |->
        LinearRow(lin, t, PositionalEncoding(x[2], shape[2]), z, cond,
                  x[1], x[2], x[3], shape[3])]

RECURSIVE SumOver(_, _)
\* the sum of f over the index set S
SumOver(S, f) ==
    IF S = {} THEN Zero
    ELSE LET x == CHOOSE y \in S : TRUE
         IN  RAdd(f[x], SumOver(S \ {x}, f))

\* line 270: z_dot[:, :, i].sum() as a function of z
ChannelSum(lin, t, z, cond, shape, i) ==
    SumOver(Idx2(shape[1], shape[2]),
            [bs \in Idx2(shape[1], shape[2]) |->
                ZDot(lin, t, z, cond, shape)[<<bs[1], bs[2], i>>]])

\* z with 1 added to the entry at index x
Bumped(z, x) == [y \in DOMAIN z |-> IF y = x THEN RAdd(z[y], R(1)) ELSE z[y]]

\* line 270: torch.autograd.grad(z_dot[:, :, i].sum(), z)[0], by its
\* contract: the partial derivatives of that scalar with respect to every
\* entry of z.  The scalar is affine in z, so each partial derivative is
\* the difference the scalar makes when the entry grows by 1.
GradOfChannelSum(lin, t, z, cond, shape, i) ==
    [inp \in Idx3(shape[1], shape[2], shape[3]) |->
        RSub(ChannelSum(lin, t, Bumped(z, inp), cond, shape, i),
             ChannelSum(lin, t, z, cond, shape, i))]

\* a variant of TraceTerm that adds every channel of the gradient
TraceTerm_AllChannels(lin, t, z, cond, shape, i) ==
    [x \in Idx2(shape[1], shape[2]) |->
        RSum([j \in 0..(shape[3] - 1) |->
                 GradOfChannelSum(lin, t, z, cond, shape, i)[<<x[1], x[2], j>>]],
             shape[3])]

\* line 270: [:, :, i] of that gradient, the term added to trace
TraceTerm(lin, t, z, cond, shape, i) ==
    LET grad == GradOfChannelSum(lin, t, z, cond, shape, i)
    IN  [x \in Idx2(shape[1], shape[2]) |-> grad[<<x[1], x[2], i>>]]

\* a variant of EnabledGradMode that keeps the caller's mode
EnabledGradMode_Inherited(caller_mode) == caller_mode

\* line 276: torch.set_grad_enabled(True), whatever the mode was
EnabledGradMode(caller_mode) == TRUE

OdeInit ==
    /\ layer = NoLinear /\ oshape = <<0, 0, 0>> /\ ot = 0 /\ oz = NoTensor
    /\ ocond = NoTensor /\ caller_grad = FALSE /\ grad_enabled = FALSE
    /\ z_requires_grad = FALSE /\ t_requires_grad = FALSE
    /\ z_dot = NoTensor /\ z_dot_tracked = FALSE /\ trace = NoTensor
    /\ oi = 0 /\ oret = [z_dot |-> NoTensor, neg_divergence |-> NoTensor]
    /\ opc = "idle"

\* lines 273-274: forward(t, states) is entered with z = states[0], in the
\* caller's gradient mode; self.condition was set by the flow (line 298)
OdeCall(l, shape, t, z, cond, mode, z_req) ==
    /\ opc = "idle"
    /\ layer' = l /\ oshape' = shape /\ ot' = t /\ oz' = z /\ ocond' = cond
    /\ caller_grad' = mode /\ grad_enabled' = mode
    /\ z_requires_grad' = z_req /\ t_requires_grad' = FALSE
    /\ opc' = "with"
    /\ UNCHANGED <<z_dot, z_dot_tracked, trace, oi, oret>>
    /\ UNCHANGED notOde

\* line 276: with torch.set_grad_enabled(True)
OdeEnableGrad ==
    /\ opc = "with"
    /\ grad_enabled' = EnabledGradMode(caller_grad)
    /\ opc' = "requires_grad"
    /\ UNCHANGED <<layer, oshape, ot, oz, ocond, caller_grad, z_requires_grad,
                   t_requires_grad, z_dot, z_dot_tracked, trace, oi, oret>>
    /\ UNCHANGED notOde

\* lines 277-278: z.requires_grad_(True); t.requires_grad_(True)
OdeRequireGrad ==
    /\ opc = "requires_grad"
    /\ z_requires_grad' = TRUE /\ t_requires_grad' = TRUE
    /\ opc' = "z_dot"
    /\ UNCHANGED <<layer, oshape, ot, oz, ocond, caller_grad, grad_enabled,
                   z_dot, z_dot_tracked, trace, oi, oret>>
    /\ UNCHANGED notOde

\* line 279 and lines 267-268: z_dot = self._z_dot(t, z), recorded in the
\* graph when the mode is enabled and z requires grad; trace = zeros
OdeZDot ==
    /\ opc = "z_dot"
    /\ z_dot' = ZDot(layer, ot, oz, ocond, oshape)
    /\ z_dot_tracked' = (grad_enabled /\ z_requires_grad)
    /\ trace' = [x \in Idx2(oshape[1], oshape[2]) |-> Zero]
    /\ oi' = 0 /\ opc' = "trace"
    /\ UNCHANGED <<layer, oshape, ot, oz, ocond, caller_grad, grad_enabled,
                   z_requires_grad, t_requires_grad, oret>>
    /\ UNCHANGED notOde

\* lines 269-270: one iteration of the loop over the channels;
\* torch.autograd.grad raises on a z_dot that is not in a graph
OdeTraceStep ==
    /\ opc = "trace" /\ oi < oshape[3]
    /\ IF z_dot_tracked
       THEN /\ LET term == TraceTerm(layer, ot, oz, ocond, oshape, oi)
               IN  trace' = [x \in DOMAIN trace |->
                            RAdd(trace[x], term[x])]
            /\ oi' = oi + 1 /\ opc' = "trace"
       ELSE /\ opc' = "raised"
            /\ UNCHANGED <<trace, oi>>
    /\ UNCHANGED <<layer, oshape, ot, oz, ocond, caller_grad, grad_enabled,
                   z_requires_grad, t_requires_grad, z_dot, z_dot_tracked, oret>>
    /\ UNCHANGED notOde

\* lines 271 and 280-282: the with block is left, which restores the
\* caller's mode, and (z_dot, -divergence) is returned
OdeReturn ==
    /\ opc = "trace" /\ oi >= oshape[3]
    /\ grad_enabled' = caller_grad
    /\ oret' = [z_dot |-> z_dot,
                neg_divergence |-> [x \in DOMAIN trace |-> RNeg(trace[x])]]
    /\ opc' = "returned"
    /\ UNCHANGED <<layer, oshape, ot, oz, ocond, caller_grad, z_requires_grad,
                   t_requires_grad, z_dot, z_dot_tracked, trace, oi>>
    /\ UNCHANGED notOde

OdeNext ==
    \/ opc = "idle" /\ \E shape \in OdeShapes : \E l \in Linears(shape[3]) :
          \E t \in OdeTimes : \E z \in ZTensors(shape[1], shape[2], shape[3]) :
          \E cond \in ConditionTensors(shape[1]) :
          \E mode \in BOOLEAN : \E z_req \in BOOLEAN :
              OdeCall(l, shape, t, z, cond, mode, z_req)
    \/ OdeEnableGrad
    \/ OdeRequireGrad
    \/ OdeZDot
    \/ OdeTraceStep
    \/ OdeReturn

(* ------------- ConditionalODE.__init__ and _z_dot, on modules ---------- *)
\* A module of self.layers is a record of its kind, its number among the
\* modules of its kind in construction order, and the sizes of the last
\* dimension it takes and gives.  A tensor is the sequence of operations
\* that produced it from cat(z, condition), with the size of its last
\* dimension.
LinearModule(k, in_features, out_features) ==
    [kind |-> "Linear", number |-> k, in |-> in_features, out |-> out_features]
LayerNormModule(k, normalized_shape) ==
    [kind |-> "LayerNorm", number |-> k, in |-> normalized_shape,
     out |-> normalized_shape]
Operation(kind, k) == [op |-> kind, number |-> k]
\* list(hidden_dims) for the hidden_dims a model is constructed with
HiddenDims == UNION {[0..(h - 1) -> 1..MaxDim] : h \in 0..MaxHidden}
\* line 242: [input_dim + condition_dim] + list(hidden_dims) + [input_dim]
DimList(input_dim, condition_dim, hidden_dims) ==
    [i \in 0..(Len0(hidden_dims) + 1) |->
        IF i = 0 THEN input_dim + condition_dim
        ELSE IF i = Len0(hidden_dims) + 1 THEN input_dim
        ELSE hidden_dims[i - 1]]
\* list.append
ListAppend(list, x) == list @@ (Len0(list) :> x)

\* a variant of NextIndex that visits every module (the loop of line 258)
NextIndex_EveryModule(i) == i + 1

\* line 257: range(0, len(self.layers), 2)
NextIndex(i) == i + 2

ZDotInit ==
    /\ zinput_dim = 0 /\ zcondition_dim = 0 /\ dim_list = <<>> /\ layers = <<>>
    /\ zi = 0 /\ tpz_cat = <<>> /\ tpz_cat_dim = 0
    /\ z_dot_ops = <<>> /\ z_dot_dim = 0 /\ zpc = "new"

\* lines 241-244: ConditionalODE(input_dim, condition_dim, hidden_dims)
NewConditionalODE(input_dim, condition_dim, hidden_dims) ==
    /\ zpc = "new"
    /\ zinput_dim' = input_dim /\ zcondition_dim' = condition_dim
    /\ dim_list' = DimList(input_dim, condition_dim, hidden_dims)
    /\ layers' = <<>> /\ zi' = 0 /\ zpc' = "append_linear"
    /\ UNCHANGED <<tpz_cat, tpz_cat_dim, z_dot_ops, z_dot_dim>>
    /\ UNCHANGED notZDot

\* lines 245-246: the next Linear is appended
InitAppendLinear ==
    /\ zpc = "append_linear" /\ zi < Len0(dim_list) - 1
    /\ layers' = ListAppend(layers,
                            LinearModule(zi, dim_list[zi] + 2, dim_list[zi + 1]))
    /\ zpc' = "append_norm"
    /\ UNCHANGED <<zinput_dim, zcondition_dim, dim_list, zi, tpz_cat,
                   tpz_cat_dim, z_dot_ops, z_dot_dim>>
    /\ UNCHANGED notZDot

\* lines 247-248: its LayerNorm is appended, unless the Linear is the last
InitAppendLayerNorm ==
    /\ zpc = "append_norm"
    /\ layers' = IF zi < Len0(dim_list) - 2
                 THEN ListAppend(layers, LayerNormModule(zi, dim_list[zi + 1]))
                 ELSE layers
    /\ zi' = zi + 1 /\ zpc' = "append_linear"
    /\ UNCHANGED <<zinput_dim, zcondition_dim, dim_list, tpz_cat, tpz_cat_dim,
                   z_dot_ops, z_dot_dim>>
    /\ UNCHANGED notZDot

\* lines 249-250: the loop has ended and the model is constructed
InitDone ==
    /\ zpc = "append_linear" /\ zi >= Len0(dim_list) - 1
    /\ zpc' = "constructed"
    /\ UNCHANGED <<zinput_dim, zcondition_dim, dim_list, layers, zi, tpz_cat,
                   tpz_cat_dim, z_dot_ops, z_dot_dim>>
    /\ UNCHANGED notZDot

\* lines 252-256: _z_dot(t, z) is entered; z_dot = cat(z, condition)
ZDotCall ==
    /\ zpc = "constructed"
    /\ z_dot_ops' = <<>> /\ z_dot_dim' = zinput_dim + zcondition_dim
    /\ tpz_cat' = <<>> /\ tpz_cat_dim' = 0
    /\ zi' = 0 /\ zpc' = "loop"
    /\ UNCHANGED <<zinput_dim, zcondition_dim, dim_list, layers>>
    /\ UNCHANGED notZDot

\* line 259: tpz_cat = cat(time_encoding, positional_encoding, z_dot)
ZDotCat ==
    /\ zpc = "loop" /\ zi < Len0(layers)
    /\ tpz_cat' = Append(z_dot_ops, Operation("cat_time_position", -1))
    /\ tpz_cat_dim' = z_dot_dim + 2
    /\ zpc' = "layer"
    /\ UNCHANGED <<zinput_dim, zcondition_dim, dim_list, layers, zi, z_dot_ops,
                   z_dot_dim>>
    /\ UNCHANGED notZDot

\* lines 260-261: z_dot = self.layers[i](tpz_cat); the module raises on an
\* input whose last dimension is not the one it was constructed for
ZDotLayer ==
    /\ zpc = "layer"
    /\ IF layers[zi].in = tpz_cat_dim
       THEN /\ z_dot_ops' =
                  Append(tpz_cat, Operation(layers[zi].kind, layers[zi].number))
            /\ z_dot_dim' = layers[zi].out
            /\ zpc' = IF zi < Len0(layers) - 2 THEN "norm" ELSE "next"
       ELSE /\ zpc' = "raised"
            /\ UNCHANGED <<z_dot_ops, z_dot_dim>>
    /\ UNCHANGED <<zinput_dim, zcondition_dim, dim_list, layers, zi, tpz_cat,
                   tpz_cat_dim>>
    /\ UNCHANGED notZDot

\* line 262: z_dot = self.layers[i + 1](z_dot)
ZDotNorm ==
    /\ zpc = "norm"
    /\ IF layers[zi + 1].in = z_dot_dim
       THEN /\ z_dot_ops' =
                  Append(z_dot_ops,
                         Operation(layers[zi + 1].kind, layers[zi + 1].number))
            /\ z_dot_dim' = layers[zi + 1].out
            /\ zpc' = "softplus"
       ELSE /\ zpc' = "raised"
            /\ UNCHANGED <<z_dot_ops, z_dot_dim>>
    /\ UNCHANGED <<zinput_dim, zcondition_dim, dim_list, layers, zi, tpz_cat,
                   tpz_cat_dim>>
    /\ UNCHANGED notZDot

\* line 263: z_dot = F.softplus(z_dot)
ZDotSoftplus ==
    /\ zpc = "softplus"
    /\ z_dot_ops' = Append(z_dot_ops, Operation("softplus", -1))
    /\ zpc' = "next"
    /\ UNCHANGED <<zinput_dim, zcondition_dim, dim_list, layers, zi, tpz_cat,
                   tpz_cat_dim, z_dot_dim>>
    /\ UNCHANGED notZDot

\* line 257: the loop variable moves to the next Linear
ZDotAdvance ==
    /\ zpc = "next"
    /\ zi' = NextIndex(zi) /\ zpc' = "loop"
    /\ UNCHANGED <<zinput_dim, zcondition_dim, dim_list, layers, tpz_cat,
                   tpz_cat_dim, z_dot_ops, z_dot_dim>>
    /\ UNCHANGED notZDot

\* line 264: return z_dot
ZDotReturn ==
    /\ zpc = "loop" /\ zi >= Len0(layers)
    /\ zpc' = "returned"
    /\ UNCHANGED <<zinput_dim, zcondition_dim, dim_list, layers, zi, tpz_cat,
                   tpz_cat_dim, z_dot_ops, z_dot_dim>>
    /\ UNCHANGED notZDot

ZDotNext ==
    \/ zpc = "new" /\ \E input_dim \in 1..MaxDim : \E condition_dim \in 1..MaxDim :
          \E hidden_dims \in HiddenDims :
              NewConditionalODE(input_dim, condition_dim, hidden_dims)
    \/ InitAppendLinear
    \/ InitAppendLayerNorm
    \/ InitDone
    \/ ZDotCall
    \/ ZDotCat
    \/ ZDotLayer
    \/ ZDotNorm
    \/ ZDotSoftplus
    \/ ZDotAdvance
    \/ ZDotReturn

(* ------------------- InD: the observation sites ------------------------ *)
\* src/InD.py.  The property observation_siteN (lines 51-177) passes the
\* two-digit key of N to _get_observation_site; a key is the pair of its
\* digits.
SiteKey(n) == <<n \div 10, n % 10>>
Sites == 1..MaxSites
SiteKeys == {SiteKey(n) : n \in Sites}
NoSite == <<>>

\* train_ratio as a fraction <<numerator, denominator>>
TrainRatios == {<<1, 2>>, <<1, 1>>}
DataSizes == 1..MaxData

\* np.random.permutation(n) (line 196): the orderings of 0..n-1
RandomPermutations(n) ==
    {q \in [1..n -> 0..(n - 1)] : \A i, j \in 1..n : q[i] = q[j] => i = j}

\* lines 197-199: n_train = int(n_data * train_ratio), n_test = the rest
NTrain(n_data, ratio) == (n_data * ratio[1]) \div ratio[2]
NTest(n_data, ratio) == n_data - NTrain(n_data, ratio)

\* lines 201-202: train_idx = randidx[:n_train] and
\* test_idx = randidx[n_train:(n_train+n_test)]
TrainIdx(randidx, ratio) == SubSeq(randidx, 1, NTrain(Len(randidx), ratio))
TestIdx(randidx, ratio) ==
    SubSeq(randidx, NTrain(Len(randidx), ratio) + 1,
           NTrain(Len(randidx), ratio) + NTest(Len(randidx), ratio))

\* lines 27-33 and 216-219: an InDObservationSite; id tells one object from
\* another, the loaders hold the rows of the split
InDObservationSite(id, key, train_idx, test_idx) ==
    [id |-> id, background |-> key, train_loader |-> train_idx,
     test_loader |-> test_idx]
NoObject == InDObservationSite(0, NoSite, <<>>, <<>>)

\* what a property access gave its caller: an object, or an exception
AccessReturned(obj) == [raised |-> FALSE, value |-> obj]
AccessRaised == [raised |-> TRUE, value |-> NoObject]

\* a variant of Cached for which no key is ever in the dict
Cached_Never(sites, key) == FALSE

\* line 180: site in self.observation_sites
Cached(sites, key) == key \in DOMAIN sites

IndInit ==
    /\ train_ratio = <<0, 1>> /\ observation_sites = <<>>
    /\ isite = NoSite /\ iret = AccessReturned(NoObject) /\ ipc = "new"
    /\ load_calls = [k \in SiteKeys |-> 0]
    /\ load_returns = [k \in SiteKeys |-> 0]
    /\ site_returns = [k \in SiteKeys |-> {}]
    /\ num_accesses = [k \in SiteKeys |-> 0]
    /\ num_objects = 0

\* lines 43-49: InD(root, train_ratio, ...) starts with an empty dict
NewInD(ratio) ==
    /\ ipc = "new"
    /\ train_ratio' = ratio /\ observation_sites' = <<>>
    /\ ipc' = "idle"
    /\ UNCHANGED <<isite, iret, load_calls, load_returns, site_returns,
                   num_accesses, num_objects>>
    /\ UNCHANGED notInd

\* lines 51-177: the property observation_siteN enters
\* _get_observation_site with its key
ObservationSite(n) ==
    /\ ipc = "idle"
    /\ isite' = SiteKey(n) /\ ipc' = "get"
    /\ num_accesses' = [num_accesses EXCEPT ![SiteKey(n)] = @ + 1]
    /\ UNCHANGED <<train_ratio, observation_sites, iret, load_calls,
                   load_returns, site_returns, num_objects>>
    /\ UNCHANGED notInd

\* lines 180 and 182: the key is in the dict, its object is returned
GetCached ==
    /\ ipc = "get" /\ Cached(observation_sites, isite)
    /\ iret' = AccessReturned(observation_sites[isite])
    /\ site_returns' = [site_returns EXCEPT
                           ![isite] = @ \cup {observation_sites[isite]}]
    /\ ipc' = "idle"
    /\ UNCHANGED <<train_ratio, observation_sites, isite, load_calls,
                   load_returns, num_accesses, num_objects>>
    /\ UNCHANGED notInd

\* lines 180-181: the key is not in the dict, _load_observation_site is
\* called
LoadCall ==
    /\ ipc = "get" /\ ~Cached(observation_sites, isite)
    /\ load_calls' = [load_calls EXCEPT ![isite] = @ + 1]
    /\ ipc' = "load"
    /\ UNCHANGED <<train_ratio, observation_sites, isite, iret, load_returns,
                   site_returns, num_accesses, num_objects>>
    /\ UNCHANGED notInd

\* line 185: _parse raises (lines 222-224, a file of the site cannot be read;
\* lines 238 and 243, an assertion fails; line 246, no window was found): the
\* exception leaves _load_observation_site, _get_observation_site and the
\* property, and line 181 stores nothing
LoadRaise ==
    /\ ipc = "load"
    /\ iret' = AccessRaised /\ ipc' = "idle"
    /\ UNCHANGED <<train_ratio, observation_sites, isite, load_calls,
                   load_returns, site_returns, num_accesses, num_objects>>
    /\ UNCHANGED notInd

\* lines 185-219 and 181-182: _parse gave n_data windows, the permutation
\* randidx is drawn, a new InDObservationSite holding the split is returned,
\* stored under the key and returned to the caller
LoadReturn(randidx) ==
    /\ ipc = "load"
    /\ LET obj == InDObservationSite(num_objects + 1, isite,
                                     TrainIdx(randidx, train_ratio),
                                     TestIdx(randidx, train_ratio))
       IN  /\ observation_sites' =
                  [k \in DOMAIN observation_sites \cup {isite} |->
                      IF k = isite THEN obj ELSE observation_sites[k]]
           /\ iret' = AccessReturned(obj)
           /\ site_returns' = [site_returns EXCEPT ![isite] = @ \cup {obj}]
    /\ num_objects' = num_objects + 1
    /\ load_returns' = [load_returns EXCEPT ![isite] = @ + 1]
    /\ ipc' = "idle"
    /\ UNCHANGED <<train_ratio, isite, load_calls, num_accesses>>
    /\ UNCHANGED notInd

\* the accesses made on the instance so far
RECURSIVE SumOfAccesses(_)
SumOfAccesses(n) ==
    IF n = 0 THEN 0 ELSE num_accesses[SiteKey(n)] + SumOfAccesses(n - 1)

IndNext ==
    \/ \E ratio \in TrainRatios : NewInD(ratio)
    \/ ipc = "idle" /\ SumOfAccesses(MaxSites) < MaxAccesses
          /\ \E n \in Sites : ObservationSite(n)
    \/ GetCached
    \/ LoadCall
    \/ LoadRaise
    \/ ipc = "load" /\ \E n_data \in DataSizes :
          \E randidx \in RandomPermutations(n_data) :
              LoadReturn(randidx)

(* ======================= claims on the spline ========================== *)
Constructed == spc = "constructed"
Queried == spc = "constructed" /\ qkind # "none"
NumKnots == Len0(times)
\* the number of knot times at or before t, and strictly before t
CountAtOrBefore(t) ==
    Cardinality({i \in DOMAIN times : ~RGreater(R(times[i]), t)})
CountBefore(t) ==
    Cardinality({i \in DOMAIN times : RGreater(t, R(times[i]))})

\* C1 as stated: for every spline over N >= 2 strictly increasing knots and
\* every query time t, evaluate(t) and derivative(t) use the segment index
\* count(knot_times <= t) - 1 clamped to [0, N-2] and the offset
\* t - knot_time[index]; at an interior knot i the index is i and the offset 0.
C1_IndexCountsKnotsAtOrBefore ==
    (Queried /\ StrictlyIncreasing(times)) =>
        /\ qindex = Clamp(CountAtOrBefore(qt) - 1, 0, NumKnots - 2)
        /\ qfrac = RSub(qt, R(times[qindex]))
        /\ \A i \in 1..(NumKnots - 2) :
               qt = R(times[i]) => (qindex = i /\ qfrac = Zero)

\* C1 amended: for every spline over N >= 2 knots and every query time t,
\* evaluate(t) and derivative(t) use the segment index
\* count(knot_times < t) - 1 clamped to [0, N-2] and the offset
\* t - knot_time[index]; so with strictly increasing knots the segment is the
\* one with knot_time[index] < t <= knot_time[index + 1], at an interior knot
\* i (1 <= i <= N-2) the index is i - 1 and the offset is the length of
\* segment i - 1, and for t at or below the first knot, or above the last
\* one, the boundary segment (0, or N-2) is used without error.
C1_IndexCountsKnotsBefore ==
    Queried =>
        /\ qindex \in 0..(NumKnots - 2)
        /\ qfrac = RSub(qt, R(times[qindex]))
        /\ qindex = Min(Max(CountBefore(qt) - 1, 0), NumKnots - 2)
        /\ StrictlyIncreasing(times) =>
              /\ ~RGreater(qt, R(times[0])) => qindex = 0
              /\ RGreater(qt, R(times[NumKnots - 1])) => qindex = NumKnots - 2
              /\ (RGreater(qt, R(times[0]))
                    /\ ~RGreater(qt, R(times[NumKnots - 1]))) =>
                    /\ RGreater(qt, R(times[qindex]))
                    /\ ~RGreater(qt, R(times[qindex + 1]))
              /\ \A i \in 1..(NumKnots - 2) :
                    qt = R(times[i]) =>
                       /\ qindex = i - 1
                       /\ qfrac = R(times[i] - times[i - 1])

\* C1 witness: a derivative or evaluate call at an interior knot of a
\* well-formed spline
C1_Witness ==
    /\ Queried /\ StrictlyIncreasing(times) /\ NumKnots >= 3
    /\ qt = R(times[1]) /\ qindex = 0

\* C2: for every control path with N >= 2 strictly increasing knot times and
\* every knot index i in 0..N-1, the last one included, evaluate(knot_time[i])
\* equals value[i].
C2_InterpolationExact ==
    (Queried /\ qkind = "evaluate" /\ StrictlyIncreasing(times)) =>
        \A i \in 0..(NumKnots - 1) : qt = R(times[i]) => qout = R(path[i])

\* C2 witness: evaluate at the last knot of a 3-knot path with unequal
\* segment lengths and a value that differs from its neighbour's
C2_Witness ==
    /\ Queried /\ qkind = "evaluate" /\ StrictlyIncreasing(times)
    /\ NumKnots = 3 /\ qt = R(times[2]) /\ path[2] # path[1]
    /\ times[2] - times[1] # times[1] - times[0]
    /\ qout = R(path[2])

\* C6 as stated: constructing a spline from a control path whose times are
\* not strictly increasing fails with an error instead of returning a spline.
C6_NonIncreasingTimesRaise ==
    (spc # "new" /\ ~StrictlyIncreasing(times)) => spc = "raised"

\* C7: constructing a spline from a control path with fewer than 2 time
\* points raises during construction and never yields a usable spline: no
\* coefficients exist and no evaluate or derivative call is served.
C7_ShortPathRaises ==
    (spc # "new" /\ Len0(path) < 2) =>
        /\ spc = "raised"
        /\ spline = NoSpline
        /\ qkind = "none"
        /\ ~ENABLED (\E t \in {Zero} : DoEvaluate(t))

\* C7 witness: a construction from a single time point that raised
C7_Witness == spc = "raised" /\ Len0(path) = 1 /\ Len0(times) = 1

\* C9: for a control path of length 2 the interpolant is linear: two_c and
\* three_d are zero, derivative(t) is (v1-v0)/(t1-t0) for every t, inside or
\* outside [t0, t1], and evaluate(t) is v0 + (v1-v0)/(t1-t0)*(t-t0); the path
\* [(0,0),(1,1)] gives evaluate(0.5) = 0.5.
C9_TwoPointsLinear ==
    (Constructed /\ NumKnots = 2 /\ StrictlyIncreasing(times)) =>
        LET slope == Norm(path[1] - path[0], times[1] - times[0])
        IN  /\ spline.two_c[0] = Zero /\ spline.three_d[0] = Zero
            /\ qkind = "derivative" => qout = slope
            /\ qkind = "evaluate" =>
                  qout = RAdd(R(path[0]), RMul(slope, RSub(qt, R(times[0]))))
            /\ (times = (0 :> 0 @@ 1 :> 1) /\ path = (0 :> 0 @@ 1 :> 1)
                  /\ qkind = "evaluate" /\ qt = <<1, 2>>) => qout = <<1, 2>>

\* C9 witness: evaluate(0.5) on the path [(0,0),(1,1)] returned 0.5
C9_Witness ==
    /\ Constructed /\ times = (0 :> 0 @@ 1 :> 1) /\ path = (0 :> 0 @@ 1 :> 1)
    /\ qkind = "evaluate" /\ qt = <<1, 2>> /\ qout = <<1, 2>>

\* C10: for every control path with N > 2 strictly increasing knot times the
\* second derivative of the spline is zero at the first knot (two_c of
\* segment 0) and at the last knot (two_c + 2*three_d*dt of segment N-2 at
\* its right end).
C10_NaturalBoundary ==
    (Constructed /\ NumKnots > 2 /\ StrictlyIncreasing(times)) =>
        LET last == NumKnots - 2
            dt == R(times[last + 1] - times[last])
        IN  /\ spline.two_c[0] = Zero
            /\ RAdd(spline.two_c[last],
                    RMul(R(2), RMul(spline.three_d[last], dt))) = Zero

\* C10 witness: a 3-knot spline with unequal segments that really bends
C10_Witness ==
    /\ Constructed /\ NumKnots = 3 /\ StrictlyIncreasing(times)
    /\ times[2] - times[1] # times[1] - times[0]
    /\ spline.three_d[0] # Zero /\ spline.two_c[1] # Zero

\* the absolute value of a scalar
RAbs(x) == <<Abs(x[1]), x[2]>>
\* the pivots of the forward elimination on the system _coefficients builds
\* for the knot times of the constructed spline
SplinePivots ==
    NewADiagonal(TimeDiffsReciprocal(times), SystemDiagonal(times),
                 TimeDiffsReciprocal(times), NumKnots - 1)
\* the off-diagonal entries of row i of that system, in absolute value
SplineRowOffDiagonal(i) ==
    RAdd(IF i >= 1 THEN RAbs(TimeDiffsReciprocal(times)[i - 1]) ELSE Zero,
         IF i <= NumKnots - 2 THEN RAbs(TimeDiffsReciprocal(times)[i]) ELSE Zero)

\* C17: for every strictly increasing knot-time sequence of length N > 2 the
\* tridiagonal system built by _coefficients is strictly diagonally dominant
\* in every row, and every pivot new_A_diagonal[i] (0 <= i <= N-1) of the
\* forward elimination is finite and strictly positive, so the solver never
\* divides by zero on a spline system.
C17_SplineSystemPivotsPositive ==
    (Constructed /\ NumKnots > 2 /\ StrictlyIncreasing(times)) =>
        \A i \in 0..(NumKnots - 1) :
            /\ RGreater(RAbs(SystemDiagonal(times)[i]), SplineRowOffDiagonal(i))
            /\ RGreater(SplinePivots[i], Zero)
            /\ \A k \in DOMAIN spline.b : IsFinite(spline.b[k])

\* C17 witness: a 3-knot spline with unequal segments whose middle pivot is
\* smaller than the diagonal entry it was eliminated from
C17_Witness ==
    /\ Constructed /\ NumKnots = 3 /\ StrictlyIncreasing(times)
    /\ times[2] - times[1] # times[1] - times[0]
    /\ RGreater(SystemDiagonal(times)[1], SplinePivots[1])
    /\ RGreater(SplinePivots[2], Zero)

\* the length of segment k of the constructed spline
SegmentLength(k) == R(times[k + 1] - times[k])

\* C21: for every control path with N > 2 strictly increasing knot times and
\* every interior knot i (1 <= i <= N-2), the value and the first derivative
\* of segment i-1 at its right end (offset knot_time[i] - knot_time[i-1])
\* equal the value a and the first derivative b of segment i at offset 0.
C21_ContinuousAtInteriorKnots ==
    (Constructed /\ NumKnots > 2 /\ StrictlyIncreasing(times)) =>
        \A i \in 1..(NumKnots - 2) :
            /\ Evaluate(spline, SegmentLength(i - 1), i - 1) = spline.a[i]
            /\ Derivative(spline, SegmentLength(i - 1), i - 1) = spline.b[i]
            /\ Evaluate(spline, Zero, i) = spline.a[i]
            /\ Derivative(spline, Zero, i) = spline.b[i]

\* C21 witness: a 3-knot spline with unequal segments that bends at its
\* interior knot, where the slope is not zero
C21_Witness ==
    /\ Constructed /\ NumKnots = 3 /\ StrictlyIncreasing(times)
    /\ times[2] - times[1] # times[1] - times[0]
    /\ spline.three_d[0] # Zero /\ spline.two_c[1] # Zero
    /\ spline.b[1] # Zero /\ spline.b[1] # spline.b[0]
    /\ Derivative(spline, SegmentLength(0), 0) = spline.b[1]

(* ================= claims on the tridiagonal solver ==================== *)
\* row i of A*x for the three diagonals U, D, L
RowTimes(U, D, L, x, i) ==
    RAdd(RMul(D[i], x[i]),
         RAdd(IF i >= 1 THEN RMul(L[i - 1], x[i - 1]) ELSE Zero,
              IF i <= Len0(x) - 2 THEN RMul(U[i], x[i + 1]) ELSE Zero))
PivotsNonZero ==
    \A i \in 0..(TriChannels - 1) :
        IsFinite(new_A_diagonal[i]) /\ new_A_diagonal[i] # Zero
IsPoisson ==
    /\ \A i \in DOMAIN tD : tD[i] = R(2)
    /\ \A i \in DOMAIN tU : tU[i] = R(-1) /\ tL[i] = R(-1)
    /\ \A i \in DOMAIN tb : tb[i] = R(1)

\* C8: for every tridiagonal system of size K >= 1 whose elimination pivots
\* are all non-zero, the solver returns x with A*x = b, and for constant
\* diagonal 2, off-diagonals -1 and right-hand side 1 it returns the
\* discrete-Poisson solution x[j] = (j+1)(K-j)/2.
C8_SolvesSystem ==
    (tpc = "returned" /\ PivotsNonZero) =>
        /\ DOMAIN tret = 0..(TriChannels - 1)
        /\ \A i \in 0..(TriChannels - 1) :
              RowTimes(tU, tD, tL, tret, i) = tb[i]
        /\ IsPoisson =>
              \A j \in 0..(TriChannels - 1) :
                  tret[j] = Norm((j + 1) * (TriChannels - j), 2)

\* C8 witness: a returned Poisson system of size 3, all pivots non-zero
C8_Witness ==
    /\ tpc = "returned" /\ PivotsNonZero /\ IsPoisson /\ TriChannels = 3
    /\ tret = (0 :> <<3, 2>> @@ 1 :> R(2) @@ 2 :> <<3, 2>>)

\* the entries of an object array that have been assigned so far
Assigned(arr) == DOMAIN arr
\* one step assigns at most one entry of arr, an entry that was not assigned
\* before, and leaves the assigned ones alone
AssignsFresh(old, new) ==
    \/ new = old
    \/ \E j \in Assigned(new) \ Assigned(old) :
          /\ Assigned(new) = Assigned(old) \cup {j}
          /\ \A k \in Assigned(old) : new[k] = old[k]
\* what has been assigned at each position of the function: the forward
\* pass has filled new_b and new_A_diagonal up to i - 1, which is what
\* iteration i reads, and the backward pass has filled outs from i + 1 up
ReadsAreAssigned ==
    /\ tpc = "forward" =>
          /\ ti >= 1 /\ ti <= Max(TriChannels, 1)
          /\ Assigned(new_b) = 0..(ti - 1)
          /\ Assigned(new_A_diagonal) = 0..(ti - 1)
          /\ Assigned(outs) = {}
    /\ tpc \in {"backward", "returned"} =>
          /\ Assigned(new_b) = 0..(TriChannels - 1)
          /\ Assigned(new_A_diagonal) = 0..(TriChannels - 1)
          /\ Assigned(outs) = (ti + 1)..(TriChannels - 1)
    /\ tpc = "returned" => Assigned(outs) = 0..(TriChannels - 1)
\* a step of a running call
PureStep ==
    /\ tpc # "idle" => UNCHANGED <<tb, tU, tD, tL>>
    /\ tpc # "idle" =>
          /\ AssignsFresh(new_b, new_b')
          /\ AssignsFresh(new_A_diagonal, new_A_diagonal')
          /\ AssignsFresh(outs, outs')

\* C18: _tridiagonal_solve is pure: a running call never modifies its
\* arguments b, A_upper, A_diagonal, A_lower; every step assigns only entries
\* of new_b, new_A_diagonal and outs that were not assigned before and never
\* changes an assigned one, so each entry is assigned exactly once; and an
\* entry is read only after it was assigned (forward pass in increasing i,
\* backward pass in decreasing i).
C18_SolverPure == [](ReadsAreAssigned) /\ [][PureStep]_vars

\* C18 witness: a returned call on a system of size 3 with all three arrays
\* filled and the arguments as they were passed
C18_Witness ==
    /\ tpc = "returned" /\ TriChannels = 3
    /\ Assigned(new_b) = 0..2 /\ Assigned(new_A_diagonal) = 0..2
    /\ Assigned(outs) = 0..2 /\ tret = outs
    /\ Len0(tU) = 2 /\ Len0(tD) = 3 /\ Len0(tL) = 2

(* ====================== claims on the encoder ========================== *)
\* C3: CasualEncoder.forward(t, x) with T >= 2 timestamps starts from
\* embed(spline.evaluate(t[0])), integrates over the whole range
\* t[0]..t[T-1] and returns readout of the ODE state at the last timestamp
\* t[T-1], for every T and not only for T = 2.
C3_ReturnsTerminalState ==
    epc = "returned" =>
        /\ Len0(et) >= 2
        /\ eout[0] = Embed(R(ex[0]))
        /\ DOMAIN eout = 0..(Len0(et) - 1)
        /\ eret = Readout(eout[Len0(et) - 1])

(* ================= claims on the flow and on sampling ================== *)
\* C4: no shared mutable state crosses call boundaries of the flow
\* integrator: when two forward calls on one model carry different
\* embeddings and their drift evaluations interleave in any order, every
\* drift evaluation of a call uses that call's own embedding, and no state
\* written by a call is left behind on the model after the call returns.
C4_NoSharedStateAcrossCalls ==
    /\ \A c \in Calls : fused[c] \subseteq {fcond[c]}
    /\ (\A c \in Calls : fpc[c] \in {"idle", "returned"}) => condition = None

\* C5: for a single observed trajectory and every num_samples n >= 1,
\* sample(x, feat, n) draws n base samples, computes the embedding exactly
\* once, runs the reverse integration and returns without raising, with
\* output_paths of shape (n, seq_len, input_dim) and delta_logpz of shape
\* (n, seq_len).
C5_SampleReturnsShapes ==
    (x_shape # <<>> /\ x_shape[1] = 1) =>
        /\ mpc # "raised"
        /\ mpc = "returned" =>
              /\ y_shape = <<num_samples, mdims.seq_len, mdims.input_dim>>
              /\ z_shape = <<num_samples, mdims.seq_len, mdims.input_dim>>
              /\ delta_logpz_shape = <<num_samples, mdims.seq_len>>
              /\ embedding_calls = 1

(* ============ claims on the flow and log_prob on values ================ *)
\* the integration times the caller asked for, and the accumulator the call
\* starts from
GivenTimes == IF times_in = NoTensor THEN (0 :> 0 @@ 1 :> 1) ELSE times_in
StartDelta ==
    IF delta_in = NoTensor
    THEN [x \in Idx2(BatchOf(z_in, cdims.seq_len, cdims.input_dim),
                     cdims.seq_len) |-> LZero]
    ELSE delta_in
\* the k-th time of the integration in the order the claim states: the given
\* order, or the given order backwards when reverse is set
TimeInOrder(k) ==
    IF reverse THEN GivenTimes[Len0(GivenTimes) - 1 - k] ELSE GivenTimes[k]
CnfRunning == cpc \in {"defaults", "flip", "condition", "solve"}

\* C11: for a fixed condition embedding the two directions of
\* ConditionalCNF.forward are mutual inverses on the state: when the z
\* returned by a call in one direction (reverse=True or reverse=False) is
\* sent through a call in the other direction, the second call returns the z
\* the first call was given.
C11_DirectionsAreInverses ==
    (ccall = 2 /\ cpc = "returned") => cret.z = z_first

\* C11 witness: a reverse call followed by a forward call on a network that
\* moves z: the second call was given a z that differs from the first one's
\* and returned the first one's
C11_Witness ==
    /\ ccall = 2 /\ cpc = "returned" /\ ~reverse /\ net.lam # 0
    /\ z_in # z_first /\ cret.z = z_first
    /\ \E x \in DOMAIN z_first : z_first[x] # Zero

\* the solution produced so far follows the times in the stated order
SolvedInOrder ==
    \A k \in DOMAIN state :
        state[k] = IF k = 0 THEN [z |-> z_in, delta_logpz |-> StartDelta]
                   ELSE Advance(net, cdims.seq_len, cdims.input_dim,
                                condition_in, state[k - 1],
                                TimeInOrder(k - 1), TimeInOrder(k))
IntegratesInStatedOrder ==
    cpc \in {"solve", "returned"} =>
        /\ DOMAIN integration_times = DOMAIN GivenTimes
        /\ \A k \in DOMAIN integration_times :
               integration_times[k] = TimeInOrder(k)
        /\ (times_in = NoTensor /\ ~reverse) =>
               integration_times = (0 :> 0 @@ 1 :> 1)
        /\ (times_in = NoTensor /\ reverse) =>
               integration_times = (0 :> 1 @@ 1 :> 0)
        /\ SolvedInOrder
CallerTimesKept == CnfRunning => times_in' = times_in

\* C12: ConditionalCNF.forward integrates over the integration times in the
\* order given (default 0 then 1) when reverse=False and over the flipped
\* sequence (default 1 then 0) when reverse=True, and no step of the call
\* changes the integration_times tensor the caller passed.
C12_IntegrationOrder == [](IntegratesInStatedOrder) /\ [][CallerTimesKept]_vars

\* C12 witness: a reverse call with the caller's times [1, 3] has integrated
\* from 3 to 1 on a network whose drift depends on time, and the caller's
\* tensor is still [1, 3]
C12_Witness ==
    /\ cpc = "returned" /\ ccall = 1 /\ reverse /\ net.wt # 0
    /\ times_in = (0 :> 1 @@ 1 :> 3)
    /\ integration_times = (0 :> 3 @@ 1 :> 1)
    /\ cret.z # z_in

\* C13: a ConditionalCNF.forward call with exactly two integration times (or
\* none, using the default pair) returns only the state (z, delta_logpz) at
\* the second time of the pair actually integrated, without a time axis; with
\* more than two times it returns the state at every requested time.
C13_ReturnsTerminalOrAll ==
    cpc = "returned" =>
        IF Len0(GivenTimes) = 2
        THEN LET last == Advance(net, cdims.seq_len, cdims.input_dim,
                                 condition_in,
                                 [z |-> z_in, delta_logpz |-> StartDelta],
                                 integration_times[0], integration_times[1])
             IN  /\ ~cret.time_axis
                 /\ cret.z = last.z
                 /\ cret.delta_logpz = last.delta_logpz
        ELSE /\ cret.time_axis
             /\ DOMAIN cret.z = DOMAIN GivenTimes
             /\ DOMAIN cret.delta_logpz = DOMAIN GivenTimes
             /\ \A k \in DOMAIN GivenTimes :
                    /\ cret.z[k] = state[k].z
                    /\ cret.delta_logpz[k] = state[k].delta_logpz

\* C13 witness: a default-times reverse call returned z and delta_logpz of
\* time 0, both different from what the call started with
C13_Witness ==
    /\ cpc = "returned" /\ ccall = 1 /\ times_in = NoTensor /\ reverse
    /\ net.lam # 0 /\ ~cret.time_axis
    /\ cret.z = state[1].z /\ cret.z # z_in
    /\ cret.delta_logpz # StartDelta

\* C15: if the drift is the zero function, the trace computed for it is
\* exactly zero, and delta_logpz, started at its default zero, is zero at
\* every state the integration produces and in the returned value, in both
\* directions.
C15_ZeroDriftKeepsDeltaZero ==
    (net = ZeroNetwork /\ delta_in = NoTensor /\ cpc \in {"solve", "returned"}) =>
        /\ JacobianTraceOf(net, cdims.input_dim) = LZero
        /\ \A k \in DOMAIN state :
               /\ state[k].z = z_in
               /\ \A x \in DOMAIN state[k].delta_logpz :
                      state[k].delta_logpz[x] = LZero
        /\ (cpc = "returned" /\ ~cret.time_axis) =>
               \A x \in DOMAIN cret.delta_logpz : cret.delta_logpz[x] = LZero
        /\ (cpc = "returned" /\ cret.time_axis) =>
               \A k \in DOMAIN cret.delta_logpz :
                   \A x \in DOMAIN cret.delta_logpz[k] :
                       cret.delta_logpz[k][x] = LZero

\* C15 witness: a reverse call over three times on the zero network returned
\* with every delta_logpz zero
C15_Witness ==
    /\ net = ZeroNetwork /\ delta_in = NoTensor /\ cpc = "returned" /\ reverse
    /\ cdims # [seq_len |-> 0, input_dim |-> 0]
    /\ Len0(state) = 3 /\ cret.time_axis
    /\ \A x \in DOMAIN cret.delta_logpz[2] : cret.delta_logpz[2][x] = LZero

\* the base log-density of row (b, s) of z for mean 0 and variance 1
StandardNormalLogProb(z, b, s) ==
    LVal(RMul(<<-1, 2>>,
              RSum([i \in 0..(cdims.input_dim - 1) |->
                       RMul(z[<<b, s, i>>], z[<<b, s, i>>])], cdims.input_dim)),
         Zero, Norm(-cdims.input_dim, 2))

\* C14: for every z_t0 and delta_logpz, TrajCNF.log_prob returns (L0, L1)
\* with L0 the base-distribution log-density of z_t0 and
\* L1 = L0 - delta_logpz elementwise; applied to the base samples and the
\* delta_logpz returned by sample() it gives
\* log p(z1) = log p_base(z0) - delta_logpz; and it leaves the mean and
\* variance buffers of the base distribution unchanged.
C14_LogProbPair ==
    lpc = "returned" =>
        /\ DOMAIN logpz_t0 = DOMAIN lp_delta
        /\ DOMAIN logpz_t1 = DOMAIN lp_delta
        /\ \A x \in DOMAIN lp_delta :
               /\ logpz_t0[x] = StandardNormalLogProb(lp_z, x[1], x[2])
               /\ logpz_t1[x] = LSub(logpz_t0[x], lp_delta[x])
        /\ cmode = "sample" =>
               /\ lp_z = z_in /\ lp_delta = cret.delta_logpz
               /\ \A x \in DOMAIN cret.delta_logpz :
                      logpz_t1[x] = LSub(StandardNormalLogProb(z_in, x[1], x[2]),
                                         cret.delta_logpz[x])
        /\ base_dist_mean = BaseDistMean(cdims.seq_len, cdims.input_dim)
        /\ base_dist_var = BaseDistVar(cdims.seq_len, cdims.input_dim)

\* C14 witness: log_prob on what sample() returned for two channels, with a
\* non-zero accumulator and non-zero base samples
C14_Witness ==
    /\ lpc = "returned" /\ cmode = "sample" /\ cdims.input_dim = 2
    /\ \E x \in DOMAIN logpz_t1 :
          /\ logpz_t1[x] # logpz_t0[x]
          /\ logpz_t0[x].rat # Zero

\* the corrected log-density log_prob(z_t0, delta) returns at (b, s)
CorrectedAt(z_t0, delta, b, s) ==
    LSub(StandardNormalLogProb(z_t0, b, s), delta[<<b, s>>])

\* the path that sample() returned has been sent through the density
\* direction with the same embedding, and that call has returned
DensityOfSampleReturned ==
    ccall = 2 /\ cpc = "returned" /\ cmode = "forward_of_sample"

\* C22: the two usage modes assign the same log-density to the same path:
\* for a path x produced by sample() from base sample y with accumulator d_s,
\* sending x through the density direction (forward, reverse=False) with the
\* same embedding yields base point y and accumulator d_f such that
\* log_prob(y, d_s) and log_prob(y, d_f) return the same corrected
\* log-density, i.e. d_s = d_f.
C22_ModesAgreeOnLogDensity ==
    DensityOfSampleReturned =>
        /\ cret.z = z_first
        /\ cret.delta_logpz = delta_first
        /\ \A x \in DOMAIN delta_first :
               CorrectedAt(z_first, delta_first, x[1], x[2])
                   = CorrectedAt(cret.z, cret.delta_logpz, x[1], x[2])

\* what the two calls return instead: the same base point and accumulators
\* of opposite sign
DensityOfSampleNegatesDelta ==
    DensityOfSampleReturned =>
        /\ cret.z = z_first
        /\ DOMAIN cret.delta_logpz = DOMAIN delta_first
        /\ \A x \in DOMAIN delta_first :
               cret.delta_logpz[x] = LNeg(delta_first[x])

\* a sample of a model whose drift has a non-zero trace went through the
\* density direction
DensityOfSampleReached ==
    /\ DensityOfSampleReturned /\ net.lam # 0
    /\ \E x \in DOMAIN delta_first : delta_first[x] # LZero

(* ================= claims on ConditionalODE.forward ==================== *)
\* d z_dot[out] / d z[inp] at the point of the call, as a difference
\* quotient of _z_dot: z_dot is affine in z, so the quotient with step 1 is
\* the partial derivative
DifferenceQuotient(out, inp) ==
    RSub(ZDot(layer, ot, Bumped(oz, inp), ocond, oshape)[out],
         ZDot(layer, ot, oz, ocond, oshape)[out])
\* the sum over the channels of the diagonal partial derivatives at (b, s)
DiagonalSum(b, s) ==
    RSum([i \in 0..(oshape[3] - 1) |->
             DifferenceQuotient(<<b, s, i>>, <<b, s, i>>)], oshape[3])

\* C16: ConditionalODE.forward computes z_dot and the Jacobian trace with
\* the gradient mode enabled and with z and t requiring gradients, on every
\* call, whether the caller's mode is enabled or disabled and whether or not
\* z required gradients before, so z_dot is always recorded in a graph and
\* the trace is never computed on a state that does not track gradients.
C16_TraceUnderGradTracking ==
    /\ opc \in {"z_dot", "trace"} =>
          grad_enabled /\ z_requires_grad /\ t_requires_grad
    /\ opc \in {"trace", "returned"} => z_dot_tracked
    /\ opc # "raised"

\* C16 witness: a call made with the gradient mode disabled on a z that did
\* not require gradients has added a trace term
C16_Witness ==
    /\ opc = "trace" /\ oi >= 1 /\ ~caller_grad /\ grad_enabled
    /\ z_dot_tracked /\ z_requires_grad /\ t_requires_grad

\* C19: ConditionalODE.forward returns (z_dot, -trace) where trace[b, s] is
\* the sum over the input_dim channels i of d z_dot[b, s, i] / d z[b, s, i]:
\* one diagonal term per channel, no off-diagonal term and no contribution
\* of another batch element or sequence position.
C19_ExactDiagonalTrace ==
    opc = "returned" =>
        /\ oret.z_dot = ZDot(layer, ot, oz, ocond, oshape)
        /\ DOMAIN oret.neg_divergence = Idx2(oshape[1], oshape[2])
        /\ \A x \in Idx2(oshape[1], oshape[2]) :
               oret.neg_divergence[x] = RNeg(DiagonalSum(x[1], x[2]))

\* C19 witness: a returned call on two batch elements, two positions and two
\* channels whose Linear has a diagonal and an off-diagonal weight
C19_Witness ==
    /\ opc = "returned" /\ oshape = <<2, 2, 2>>
    /\ layer.wz[0][0] = 1 /\ layer.wz[0][1] = 1 /\ layer.wz[1][1] = 0
    /\ oret.neg_divergence[<<1, 1>>] = R(-1)

(* ================= claims on ConditionalODE._z_dot ===================== *)
\* the number of hidden layers of the constructed model
NumHidden == Len0(dim_list) - 2
RECURSIVE OperationsThrough(_, _)
\* the operations the claim states, up to and including those of Linear k of
\* a model with h hidden layers: for each Linear in construction order the
\* concatenation with the encodings and the Linear, followed by the LayerNorm
\* of the same number and softplus unless the Linear is the last one
OperationsThrough(k, h) ==
    (IF k = 0 THEN <<>> ELSE OperationsThrough(k - 1, h))
    \o <<Operation("cat_time_position", -1), Operation("Linear", k)>>
    \o (IF k < h THEN <<Operation("LayerNorm", k), Operation("softplus", -1)>>
        ELSE <<>>)
IsPrefix(p, q) == Len(p) <= Len(q) /\ SubSeq(q, 1, Len(p)) = p
ZDotRunning == zpc \in {"loop", "layer", "norm", "softplus", "next"}

\* C20: for any number of hidden layers (including none) _z_dot applies
\* every Linear layer exactly once, in construction order, each to the
\* concatenation (time encoding, positional encoding, current activation);
\* every Linear except the last is followed by its own LayerNorm and then
\* softplus, the last Linear by neither; no module raises.
C20_LayersInOrder ==
    /\ zpc # "raised"
    /\ ZDotRunning => IsPrefix(z_dot_ops, OperationsThrough(NumHidden, NumHidden))
    /\ zpc = "returned" =>
          /\ z_dot_ops = OperationsThrough(NumHidden, NumHidden)
          /\ z_dot_dim = zinput_dim
          /\ \A k \in 0..NumHidden :
                Cardinality({n \in 1..Len(z_dot_ops) :
                                z_dot_ops[n] = Operation("Linear", k)}) = 1

\* C20 witness: _z_dot returned on a model with two hidden layers of
\* different sizes, after ten operations
C20_Witness ==
    /\ zpc = "returned" /\ NumHidden = 2 /\ dim_list[1] # dim_list[2]
    /\ Len(z_dot_ops) = 10
    /\ z_dot_ops[10] = Operation("Linear", 2)
    /\ z_dot_ops[3] = Operation("LayerNorm", 0)

(* ==================== claims on InD's sites =========================== *)
\* C23: after any sequence of observation_site1..observation_site32 accesses
\* on one InD instance, _load_observation_site has been called at most once
\* per site id, and every access to the same site returns the same
\* InDObservationSite object, so a site's random train/test split is never
\* redrawn.
C23_LoadCalledOncePerSite ==
    \A k \in SiteKeys :
        /\ load_calls[k] <= 1
        /\ Cardinality(site_returns[k]) <= 1

\* what holds of every site key in every state: one load at most has
\* returned, the accesses that returned gave one object, and it is the one
\* the dict holds
OneObjectPerSite ==
    \A k \in SiteKeys :
        /\ load_returns[k] <= 1
        /\ Cardinality(site_returns[k]) <= 1
        /\ site_returns[k] # {} =>
               /\ k \in DOMAIN observation_sites
               /\ site_returns[k] = {observation_sites[k]}
        /\ k \in DOMAIN observation_sites <=> load_returns[k] = 1

\* what holds of every step: a site that an access has returned is not
\* loaded again and keeps its object
NoReloadAfterReturn ==
    \A k \in SiteKeys :
        site_returns[k] # {} =>
            /\ load_calls'[k] = load_calls[k]
            /\ site_returns'[k] = site_returns[k]
            /\ observation_sites'[k] = observation_sites[k]

\* C23 (amended): _load_observation_site returns at most once per site id and
\* is not called again for a site once an access to it has returned; every
\* access to a site that returns gives the same InDObservationSite object,
\* so a split that was returned is never redrawn.  (A load that raises
\* stores nothing, and the next access to that site calls it again.)
C23_LoadReturnsOncePerSite == [](OneObjectPerSite) /\ [][NoReloadAfterReturn]_vars

\* C23 witness: a site whose first load raised was loaded by the second
\* access and served from the dict by the third, while another site holds
\* an object of its own
C23_Witness ==
    /\ ipc = "idle"
    /\ \E k \in SiteKeys : \E other \in SiteKeys \ {k} :
          /\ num_accesses[k] = 3 /\ load_calls[k] = 2 /\ load_returns[k] = 1
          /\ iret = AccessReturned(observation_sites[k])
          /\ Len(observation_sites[k].train_loader) = 1
          /\ Len(observation_sites[k].test_loader) = 1
          /\ other \in DOMAIN observation_sites
          /\ observation_sites[other].id # observation_sites[k].id

(* --------------------------- specifications ---------------------------- *)
Init ==
    /\ SplineInit /\ TriInit /\ EncInit /\ FlowInit /\ SampleInit /\ CnfInit
    /\ OdeInit /\ ZDotInit /\ IndInit

\* the spline object alone
SpecSpline == Init /\ [][SplineNext]_vars
\* a direct call of the tridiagonal solver alone
SpecTri == Init /\ [][TriNext]_vars
\* a call of the CDE encoder alone
SpecEnc == Init /\ [][EncNext]_vars
\* concurrent ConditionalCNF.forward calls on one model
SpecFlow == Init /\ [][FlowNext]_vars
\* a TrajCNF.sample call alone
SpecSample == Init /\ [][SampleNext]_vars
\* a TrajCNF model on tensor values: forward, sample and log_prob calls
SpecCnf == Init /\ [][CnfNext]_vars
\* a ConditionalODE.forward call alone
SpecOde == Init /\ [][OdeNext]_vars
\* the construction of a ConditionalODE and a _z_dot call on it
SpecZDot == Init /\ [][ZDotNext]_vars
SpecInd == Init /\ [][IndNext]_vars

\* The components together.  They share no state, so a behaviour exercises
\* one of them: a component starts only while the others are untouched.
SplineIdle == spc = "new"
TriIdle == tpc = "idle"
EncIdle == epc = "idle"
FlowIdle == \A c \in Calls : fpc[c] = "idle"
SampleIdle == mpc = "idle"
CnfIdle == cpc = "new"
OdeIdle == opc = "idle"
ZDotIdle == zpc = "new"
IndIdle == ipc = "new"
OthersIdle(own) ==
    \A c \in {"spline", "tri", "enc", "flow", "sample", "cnf", "ode",
              "z_dot", "ind"} \ {own} :
        CASE c = "spline" -> SplineIdle
          [] c = "tri" -> TriIdle
          [] c = "enc" -> EncIdle
          [] c = "flow" -> FlowIdle
          [] c = "sample" -> SampleIdle
          [] c = "cnf" -> CnfIdle
          [] c = "ode" -> OdeIdle
          [] c = "z_dot" -> ZDotIdle
          [] c = "ind" -> IndIdle
Next ==
    \/ OthersIdle("spline") /\ SplineNext
    \/ OthersIdle("tri") /\ TriNext
    \/ OthersIdle("enc") /\ EncNext
    \/ OthersIdle("flow") /\ FlowNext
    \/ OthersIdle("sample") /\ SampleNext
    \/ OthersIdle("cnf") /\ CnfNext
    \/ OthersIdle("ode") /\ OdeNext
    \/ OthersIdle("z_dot") /\ ZDotNext
    \/ OthersIdle("ind") /\ IndNext
Spec == Init /\ [][Next]_vars
====
